---- MODULE Spec2Model ----
(***************************************************************************)
(* Model of the MSM graph: the validated directed-graph wrapper            *)
(* (src/src/digraph.py, ValidatedArangoGraph) and the metadata/snippet     *)
(* layer built on it (src/src/msm_digraph.py, MSMDiGraph).                 *)
(*                                                                         *)
(* Strings that the code concatenates or splits (vertex keys, names,       *)
(* categories, extensions) are sequences of one-character strings, so that *)
(* formatting and parsing are computed as the code computes them.          *)
(***************************************************************************)
EXTENDS Integers, Sequences, FiniteSets, TLC

VARIABLES G, call, err, pre, ret, walk

vars == <<G, call, err, pre, ret, walk>>

-----------------------------------------------------------------------------
(* Bounds of the model *)

\* longest metadata list handed to insert_snippet
MaxListLen == 2
\* most edges the Graph Store actions put into the graph
MaxEdges == 2
\* most edges among the metadata of the graphs get_metadata_tree is run on
MaxParentEdges == 2
\* longest metadata name formatted and parsed
MaxNameLen == 2

-----------------------------------------------------------------------------
(* The backing engine: a directed graph with node and edge attributes.     *)
(* G.nodes maps each vertex key to its attribute map, G.edges is the set   *)
(* of edges, each with its source, destination and label.                  *)

NoAttrs == [a \in {} |-> ""]

EmptyGraph == [nodes |-> [k \in {} |-> NoAttrs], edges |-> {}]

\* node_key in self.G
memv(g, node_key) == node_key \in DOMAIN g.nodes

\* self.G.has_edge(source_key, target_key)
meme(g, source_key, target_key) ==
    \E e \in g.edges : e.src = source_key /\ e.dst = target_key

\* self.G.add_node(node_key, **data)
\* (attributes given for a node that exists are merged into its map)
add_node(g, node_key, data) ==
    LET old == IF node_key \in DOMAIN g.nodes THEN g.nodes[node_key] ELSE NoAttrs
        new == [a \in DOMAIN old \cup DOMAIN data |->
                    IF a \in DOMAIN data THEN data[a] ELSE old[a]]
    IN [g EXCEPT !.nodes = [k \in DOMAIN g.nodes \cup {node_key} |->
                               IF k = node_key THEN new ELSE g.nodes[k]]]

\* self.G.remove_node(node_key): the node and every edge incident to it
remove_node(g, node_key) ==
    [nodes |-> [k \in DOMAIN g.nodes \ {node_key} |-> g.nodes[k]],
     edges |-> {e \in g.edges : e.src # node_key /\ e.dst # node_key}]

\* self.G.add_edge(source_key, target_key, label=label): one edge per ordered
\* pair, a second add_edge on the pair overwrites its label
add_edge(g, source_key, target_key, label) ==
    [g EXCEPT !.edges =
        {e \in g.edges : ~(e.src = source_key /\ e.dst = target_key)}
        \cup {[src |-> source_key, dst |-> target_key, label |-> label]}]

\* self.G.remove_edge(source_key, target_key)
remove_edge(g, source_key, target_key) ==
    [g EXCEPT !.edges =
        {e \in g.edges : ~(e.src = source_key /\ e.dst = target_key)}]

\* [n for n in self.G.successors(node_key)]
successors(g, node_key) == {e.dst : e \in {x \in g.edges : x.src = node_key}}

\* [n for n in self.G.predecessors(node_key)]
predecessors(g, node_key) == {e.src : e \in {x \in g.edges : x.dst = node_key}}

-----------------------------------------------------------------------------
(* Outcomes.  A handler either returns (OK) or raises; the raised          *)
(* exceptions are named after the failure each raise statement reports.    *)

OK == "ok"
AlreadyExists == "AlreadyExists"        \* "... already exists"
NotFound == "NotFound"                  \* "... not found" / "isn't in db"
InvalidRelation == "InvalidRelation"    \* TypeError of _validate_relation_type
CategoryMismatch == "CategoryMismatch"  \* "Category mismatch ..."
ParentNotFound == "ParentNotFound"      \* "Parent metadata doesn't exist"
MetadataNotFound == "MetadataNotFound"  \* "Metadata ... isn't in db"
EmptyMetadataList == "EmptyMetadataList" \* "There should be at least one ..."
AttributeError == "AttributeError"      \* call of a method no class defines
NetworkXError == "NetworkXError"        \* the engine, asked about a node it has not

Result(g, e) == [G |-> g, err |-> e]

-----------------------------------------------------------------------------
(* Relation types *)

METADATA_PARENT == "metadata_parent"
HAS_METADATA == "has_metadata"

\* class RelationType(str, Enum): the members, by value
RelationType == {METADATA_PARENT, HAS_METADATA}

\* a relation argument: the class of the object and its value
Rel(cls, value) == [cls |-> cls, value |-> value]

_validate_relation_type_any(relation_type) ==
    [ok |-> TRUE, label |-> relation_type.value]

\* _validate_relation_type: isinstance(relation_type, self.relation_enum)
_validate_relation_type(relation_type) ==
    IF relation_type.cls = "RelationType" /\ relation_type.value \in RelationType
    THEN [ok |-> TRUE, label |-> relation_type.value]
    ELSE [ok |-> FALSE, label |-> ""]

-----------------------------------------------------------------------------
(* Graph Store: ValidatedArangoGraph *)

\* node_data is None, or a dict: the set of at most one attribute map
NoneData == {}
SomeData(d) == {d}

insertv_unguarded(g, node_data, node_key) ==
    LET data == IF node_data = NoneData THEN NoAttrs
                ELSE CHOOSE d \in node_data : TRUE
    IN Result(add_node(g, node_key, data), OK)

insertv(g, node_data, node_key) ==
    IF memv(g, node_key) THEN Result(g, AlreadyExists)
    ELSE LET data == IF node_data = NoneData THEN NoAttrs
                     ELSE CHOOSE d \in node_data : TRUE
         IN Result(add_node(g, node_key, data), OK)

deletev_keep_in_edges(g, node_key) ==
    IF ~memv(g, node_key) THEN Result(g, NotFound)
    ELSE Result([g EXCEPT !.nodes =
                    [k \in DOMAIN g.nodes \ {node_key} |-> g.nodes[k]],
                 !.edges = {e \in g.edges : e.src # node_key}], OK)

deletev_absent_no_op(g, node_key) ==
    IF ~memv(g, node_key) THEN Result(g, OK)
    ELSE Result(remove_node(g, node_key), OK)

deletev(g, node_key) ==
    IF ~memv(g, node_key) THEN Result(g, NotFound)
    ELSE Result(remove_node(g, node_key), OK)

inserte_overwrite(g, source_key, target_key, relation_type) ==
    LET v == _validate_relation_type(relation_type) IN
    IF ~v.ok THEN Result(g, InvalidRelation)
    ELSE IF ~memv(g, source_key) THEN Result(g, NotFound)
    ELSE IF ~memv(g, target_key) THEN Result(g, NotFound)
    ELSE Result(add_edge(g, source_key, target_key, v.label), OK)

inserte(g, source_key, target_key, relation_type) ==
    LET v == _validate_relation_type(relation_type) IN
    IF ~v.ok THEN Result(g, InvalidRelation)
    ELSE IF ~memv(g, source_key) THEN Result(g, NotFound)
    ELSE IF ~memv(g, target_key) THEN Result(g, NotFound)
    ELSE IF meme(g, source_key, target_key) THEN Result(g, AlreadyExists)
    ELSE Result(add_edge(g, source_key, target_key, v.label), OK)

deletee_both_directions(g, source_key, target_key) ==
    IF ~meme(g, source_key, target_key) THEN Result(g, NotFound)
    ELSE Result(remove_edge(remove_edge(g, source_key, target_key),
                            target_key, source_key), OK)

deletee(g, source_key, target_key) ==
    IF ~meme(g, source_key, target_key) THEN Result(g, NotFound)
    ELSE Result(remove_edge(g, source_key, target_key), OK)

\* the successors method: self.G.successors(node_key) without a test that
\* the node is in the graph, which the engine answers with NetworkXError
successors_of(g, node_key) ==
    IF ~memv(g, node_key) THEN [err |-> NetworkXError, value |-> {}]
    ELSE [err |-> OK, value |-> successors(g, node_key)]

\* the predecessors method, likewise
predecessors_of(g, node_key) ==
    IF ~memv(g, node_key) THEN [err |-> NetworkXError, value |-> {}]
    ELSE [err |-> OK, value |-> predecessors(g, node_key)]

indegree(g, node_key) ==
    IF ~memv(g, node_key) THEN [err |-> NotFound, value |-> 0]
    ELSE [err |-> OK, value |-> Cardinality({e \in g.edges : e.dst = node_key})]

outdegree(g, node_key) ==
    IF ~memv(g, node_key) THEN [err |-> NotFound, value |-> 0]
    ELSE [err |-> OK, value |-> Cardinality({e \in g.edges : e.src = node_key})]

\* degree: len(self.edgesv_set(node_key)), and the class defines no
\* edgesv_set
degree(g, node_key) ==
    IF ~memv(g, node_key) THEN [err |-> NotFound, value |-> 0]
    ELSE [err |-> AttributeError, value |-> 0]

\* ValidatedArangoGraph and MSMDiGraph define no updatev: the call raises
\* AttributeError before anything is written
updatev(g, node_key, node_data) == Result(g, AttributeError)

-----------------------------------------------------------------------------
(* Domain model: Category, Metadata, Snippet *)

concept == <<"c", "o", "n", "c", "e", "p", "t">>
language == <<"l", "a", "n", "g", "u", "a", "g", "e">>

\* class Category(str, Enum), by value
Category == {concept, language}

LowerSeq == <<"a", "b", "c", "d", "e", "f", "g", "h", "i", "j", "k", "l", "m",
              "n", "o", "p", "q", "r", "s", "t", "u", "v", "w", "x", "y", "z">>
UpperSeq == <<"A", "B", "C", "D", "E", "F", "G", "H", "I", "J", "K", "L", "M",
              "N", "O", "P", "Q", "R", "S", "T", "U", "V", "W", "X", "Y", "Z">>
Range(f) == {f[i] : i \in DOMAIN f}
LowerChars == Range(LowerSeq)
Digits == {"0", "1", "2", "3", "4", "5", "6", "7", "8", "9"}

\* Metadata.name: Field(pattern=r'^[a-z0-9_]+$')
NamePattern(s) ==
    Len(s) >= 1 /\ \A i \in 1..Len(s) : s[i] \in LowerChars \cup Digits \cup {"_"}

\* Metadata(name=..., category=...): the value, and whether validation passes
Metadata(name, category) ==
    [ok |-> NamePattern(name) /\ category \in Category,
     value |-> [name |-> name, category |-> category]]

\* v.lower()
Lower(s) ==
    [i \in 1..Len(s) |->
        IF \E j \in 1..Len(UpperSeq) : UpperSeq[j] = s[i]
        THEN LowerSeq[CHOOSE j \in 1..Len(UpperSeq) : UpperSeq[j] = s[i]]
        ELSE s[i]]

\* Snippet.extension: max_length=10
MaxExtLen == 10

\* Snippet.extension: Field(pattern=r'^[a-z]+$', max_length=10)
ExtensionPattern(s) ==
    Len(s) >= 1 /\ Len(s) <= MaxExtLen /\ \A i \in 1..Len(s) : s[i] \in LowerChars

Max(S) == CHOOSE x \in S : \A y \in S : y <= x
Min(S) == CHOOSE x \in S : \A y \in S : x <= y

\* os.path.splitext(p)[0]: cut at the last dot of the last path component,
\* unless that component has nothing but dots before it
splitext_root(p) ==
    LET seps == {i \in 1..Len(p) : p[i] = "/"}
        dots == {i \in 1..Len(p) : p[i] = "."}
        sepIndex == IF seps = {} THEN 0 ELSE Max(seps)
        dotIndex == IF dots = {} THEN 0 ELSE Max(dots)
    IN IF dotIndex > sepIndex
          /\ \E i \in (sepIndex + 1)..(dotIndex - 1) : p[i] # "."
       THEN SubSeq(p, 1, dotIndex - 1)
       ELSE p

\* Snippet(name=..., content=..., extension=..., created_at=...): extension is
\* lowercased before validation, the name gets the extension after it
Snippet_name_as_given(name, content, extension, created_at) ==
    LET ext == Lower(extension) IN
    [ok |-> ExtensionPattern(ext),
     value |-> [name |-> name,
                content |-> content,
                extension |-> ext,
                created_at |-> created_at]]

\* Snippet(...): the extension in lower case, then the pattern, then the name
\* rebuilt from its root and the extension
Snippet(name, content, extension, created_at) ==
    LET ext == Lower(extension) IN
    [ok |-> ExtensionPattern(ext),
     value |-> [name |-> splitext_root(name) \o <<".">> \o ext,
                content |-> content,
                extension |-> ext,
                created_at |-> created_at]]

\* Snippet.model_validate(data): content and extension are required fields
Snippet_model_validate(data) ==
    IF {"name", "content", "extension"} \subseteq DOMAIN data
    THEN Snippet(data.name, data.content, data.extension,
                 IF "created_at" \in DOMAIN data THEN data.created_at ELSE 0)
    ELSE [ok |-> FALSE, value |-> NoAttrs]

-----------------------------------------------------------------------------
(* MSMDiGraph: keys and classification *)

\* dict(self.G.nodes[node_key]) with node[key_field] = node_key
_node_data_with_name(g, node_key) ==
    LET node == g.nodes[node_key] IN
    [a \in DOMAIN node \cup {"name"} |-> IF a = "name" THEN node_key ELSE node[a]]

\* _parse_metadata: data_string.split("-", 1), then Metadata(name, category)
_parse_metadata(data_string) ==
    LET seps == {i \in 1..Len(data_string) : data_string[i] = "-"} IN
    IF seps = {} THEN [ok |-> FALSE, value |-> NoAttrs]
    ELSE LET i == Min(seps) IN
         Metadata(SubSeq(data_string, 1, i - 1),
                  SubSeq(data_string, i + 1, Len(data_string)))

_format_metdata_name_only(metadata) == metadata.name \o <<"-">>

\* f"{metadata.name}-{metadata.category.value}"
_format_metdata(metadata) == metadata.name \o <<"-">> \o metadata.category

is_metadata_any_key(g, node_key) == _parse_metadata(node_key).ok

is_metadata(g, node_key) ==
    memv(g, node_key) /\ _parse_metadata(node_key).ok

is_snippet_by_name(g, node_key) ==
    memv(g, node_key) /\ Snippet_model_validate(g.nodes[node_key]).ok

is_snippet(g, node_key) ==
    memv(g, node_key) /\ Snippet_model_validate(_node_data_with_name(g, node_key)).ok

-----------------------------------------------------------------------------
(* MSMDiGraph: mutation workflows *)

\* metadata.model_dump()
Metadata_model_dump(metadata) ==
    [name |-> metadata.name, category |-> metadata.category]

\* snippet.model_dump(mode='json')
Snippet_model_dump(snippet) ==
    [name |-> snippet.name, content |-> snippet.content,
     extension |-> snippet.extension, created_at |-> snippet.created_at]

insert_freemetadata_upsert(g, metadata) ==
    Result(add_node(g, _format_metdata(metadata), Metadata_model_dump(metadata)), OK)

insert_freemetadata(g, metadata) ==
    LET key == _format_metdata(metadata) IN
    IF memv(g, key) THEN Result(g, AlreadyExists)
    ELSE insertv(g, SomeData(Metadata_model_dump(metadata)), key)

insert_metadata_no_parent_check(g, metadata, parent, category) ==
    IF metadata.category # category \/ parent.category # category
    THEN Result(g, CategoryMismatch)
    ELSE
    LET new_metadata_key == _format_metdata(metadata)
        parent_key == _format_metdata(parent)
    IN IF memv(g, new_metadata_key) THEN Result(g, AlreadyExists)
       ELSE LET r == insertv(g, SomeData(Metadata_model_dump(metadata)), new_metadata_key)
            IN IF r.err # OK THEN r
               ELSE inserte(r.G, parent_key, new_metadata_key,
                            Rel("RelationType", METADATA_PARENT))

insert_metadata_child_to_parent(g, metadata, parent, category) ==
    IF metadata.category # category \/ parent.category # category
    THEN Result(g, CategoryMismatch)
    ELSE
    LET new_metadata_key == _format_metdata(metadata)
        parent_key == _format_metdata(parent)
    IN IF ~is_metadata(g, parent_key) THEN Result(g, ParentNotFound)
       ELSE IF memv(g, new_metadata_key) THEN Result(g, AlreadyExists)
       ELSE LET r == insertv(g, SomeData(Metadata_model_dump(metadata)), new_metadata_key)
            IN IF r.err # OK THEN r
               ELSE inserte(r.G, new_metadata_key, parent_key,
                            Rel("RelationType", METADATA_PARENT))

insert_metadata_parent_check_first(g, metadata, parent, category) ==
    LET new_metadata_key == _format_metdata(metadata)
        parent_key == _format_metdata(parent)
    IN IF ~is_metadata(g, parent_key) THEN Result(g, ParentNotFound)
       ELSE IF memv(g, new_metadata_key) THEN Result(g, AlreadyExists)
       ELSE IF metadata.category # category \/ parent.category # category
       THEN Result(g, CategoryMismatch)
       ELSE LET r == insertv(g, SomeData(Metadata_model_dump(metadata)), new_metadata_key)
            IN IF r.err # OK THEN r
               ELSE inserte(r.G, parent_key, new_metadata_key,
                            Rel("RelationType", METADATA_PARENT))

insert_metadata_existing_child(g, metadata, parent, category) ==
    IF metadata.category # category \/ parent.category # category
    THEN Result(g, CategoryMismatch)
    ELSE
    LET new_metadata_key == _format_metdata(metadata)
        parent_key == _format_metdata(parent)
    IN IF ~is_metadata(g, parent_key) THEN Result(g, ParentNotFound)
       ELSE IF memv(g, new_metadata_key)
            THEN Result(add_edge(g, parent_key, new_metadata_key, METADATA_PARENT), OK)
       ELSE LET r == insertv(g, SomeData(Metadata_model_dump(metadata)), new_metadata_key)
            IN IF r.err # OK THEN r
               ELSE inserte(r.G, parent_key, new_metadata_key,
                            Rel("RelationType", METADATA_PARENT))

insert_metadata(g, metadata, parent, category) ==
    IF metadata.category # category \/ parent.category # category
    THEN Result(g, CategoryMismatch)
    ELSE
    LET new_metadata_key == _format_metdata(metadata)
        parent_key == _format_metdata(parent)
    IN IF ~is_metadata(g, parent_key) THEN Result(g, ParentNotFound)
       ELSE IF metadata.category # parent.category THEN Result(g, CategoryMismatch)
       ELSE IF memv(g, new_metadata_key) THEN Result(g, AlreadyExists)
       ELSE LET r == insertv(g, SomeData(Metadata_model_dump(metadata)), new_metadata_key)
            IN IF r.err # OK THEN r
               ELSE inserte(r.G, parent_key, new_metadata_key,
                            Rel("RelationType", METADATA_PARENT))

\* _metadata_present_same_cat: the first failing entry decides the error
RECURSIVE _metadata_present_same_cat(_, _, _)
_metadata_present_same_cat(g, metadata_list, category) ==
    IF metadata_list = <<>> THEN OK
    ELSE LET m == Head(metadata_list) IN
         IF ~is_metadata(g, _format_metdata(m)) THEN MetadataNotFound
         ELSE IF m.category # category THEN CategoryMismatch
         ELSE _metadata_present_same_cat(g, Tail(metadata_list), category)

RECURSIVE _insert_metadata_list_for_snippet_reversed(_, _, _, _)
_insert_metadata_list_for_snippet_reversed(g, snippet_key, metadata_list, category) ==
    IF ~is_snippet(g, snippet_key) THEN Result(g, NotFound)
    ELSE LET c == _metadata_present_same_cat(g, metadata_list, category) IN
         IF c # OK THEN Result(g, c)
         ELSE IF metadata_list = <<>> THEN Result(g, OK)
         ELSE LET r == inserte(g, _format_metdata(Head(metadata_list)), snippet_key,
                               Rel("RelationType", HAS_METADATA))
              IN IF r.err # OK THEN r
                 ELSE _insert_metadata_list_for_snippet_reversed(
                          r.G, snippet_key, Tail(metadata_list), category)

RECURSIVE _insert_metadata_list_for_snippet(_, _, _, _)
_insert_metadata_list_for_snippet(g, snippet_key, metadata_list, category) ==
    IF ~is_snippet(g, snippet_key) THEN Result(g, NotFound)
    ELSE LET c == _metadata_present_same_cat(g, metadata_list, category) IN
         IF c # OK THEN Result(g, c)
         ELSE IF metadata_list = <<>> THEN Result(g, OK)
         ELSE LET r == inserte(g, snippet_key, _format_metdata(Head(metadata_list)),
                               Rel("RelationType", HAS_METADATA))
              IN IF r.err # OK THEN r
                 ELSE _insert_metadata_list_for_snippet(
                          r.G, snippet_key, Tail(metadata_list), category)

insert_snippet(g, snippet, metadata_list, category) ==
    IF memv(g, snippet.name) THEN Result(g, AlreadyExists)
    ELSE IF Len(metadata_list) < 1 THEN Result(g, EmptyMetadataList)
    ELSE LET r == insertv(g, SomeData(Snippet_model_dump(snippet)), snippet.name)
         IN IF r.err # OK THEN r
            ELSE _insert_metadata_list_for_snippet(
                     r.G, snippet.name, metadata_list, category)

get_snippet_of_predecessors(g, snippet_name) ==
    IF ~is_snippet(g, snippet_name)
    THEN [err |-> NotFound, snippet |-> NoAttrs, metadata_list |-> {}]
    ELSE LET v == Snippet_model_validate(g.nodes[snippet_name])
             succ == predecessors(g, snippet_name)
         IN IF ~v.ok \/ \E k \in succ : ~_parse_metadata(k).ok
            THEN [err |-> "ValueError", snippet |-> NoAttrs, metadata_list |-> {}]
            ELSE [err |-> OK, snippet |-> v.value,
                  metadata_list |-> {_parse_metadata(k).value : k \in succ}]

\* get_snippet: the stored snippet and the Metadata of each successor
get_snippet(g, snippet_name) ==
    IF ~is_snippet(g, snippet_name)
    THEN [err |-> NotFound, snippet |-> NoAttrs, metadata_list |-> {}]
    ELSE LET v == Snippet_model_validate(g.nodes[snippet_name])
             succ == successors(g, snippet_name)
         IN IF ~v.ok \/ \E k \in succ : ~_parse_metadata(k).ok
            THEN [err |-> "ValueError", snippet |-> NoAttrs, metadata_list |-> {}]
            ELSE [err |-> OK, snippet |-> v.value,
                  metadata_list |-> {_parse_metadata(k).value : k \in succ}]

update_snippet_content(g, snippet_name, content) ==
    LET got == get_snippet(g, snippet_name) IN
    IF got.err # OK THEN Result(g, got.err)
    ELSE updatev(g, snippet_name,
                 SomeData(Snippet_model_dump([got.snippet EXCEPT !.content = content])))

-----------------------------------------------------------------------------
(* MSMDiGraph: deletion *)

_filter_snippets_from_vertices_all(g, l) == l

\* _filter_snippets_from_vertices, as a set
_filter_snippets_from_vertices(g, l) == {x \in l : is_snippet(g, x)}

\* _get_snippets_from_metadata: the engine raises on a vertex that does not
\* exist, and the bare except turns that into the empty set
_get_snippets_from_metadata(g, m) ==
    IF ~memv(g, _format_metdata(m)) THEN {}
    ELSE _filter_snippets_from_vertices(g, predecessors(g, _format_metdata(m)))

delete_snippet_any_vertex(g, snippet_name) == deletev(g, snippet_name)

delete_snippet(g, snippet_name) ==
    IF ~is_snippet(g, snippet_name) THEN Result(g, NotFound)
    ELSE deletev(g, snippet_name)

\* _snippet_metadata_outdegree, called on snippets only
_snippet_metadata_outdegree(g, s_key) == Cardinality(successors(g, s_key))

_only_metadata_of_snippet_any_degree(g, m_key, s_key) ==
    /\ is_metadata(g, m_key)
    /\ is_snippet(g, s_key)
    /\ _snippet_metadata_outdegree(g, s_key) >= 1
    /\ meme(g, s_key, m_key)

_only_metadata_of_snippet_never(g, m_key, s_key) == FALSE

\* _only_metadata_of_snippet: None (falsy) unless both vertices classify
_only_metadata_of_snippet(g, m_key, s_key) ==
    /\ is_metadata(g, m_key)
    /\ is_snippet(g, s_key)
    /\ _snippet_metadata_outdegree(g, s_key) = 1
    /\ meme(g, s_key, m_key)

RECURSIVE _delete_snippets_with_only_m_every(_, _, _)
_delete_snippets_with_only_m_every(g, m_key, s_keys) ==
    IF s_keys = <<>> THEN Result(g, OK)
    ELSE LET r == delete_snippet(g, Head(s_keys)) IN
         IF r.err # OK THEN r
         ELSE _delete_snippets_with_only_m_every(r.G, m_key, Tail(s_keys))

RECURSIVE _delete_snippets_with_only_m(_, _, _)
_delete_snippets_with_only_m(g, m_key, s_keys) ==
    IF s_keys = <<>> THEN Result(g, OK)
    ELSE IF _only_metadata_of_snippet(g, m_key, Head(s_keys))
         THEN LET r == delete_snippet(g, Head(s_keys)) IN
              IF r.err # OK THEN r
              ELSE _delete_snippets_with_only_m(r.G, m_key, Tail(s_keys))
         ELSE _delete_snippets_with_only_m(g, m_key, Tail(s_keys))

\* list(snippets): the elements of the set in some order
Orderings(S) ==
    {s \in [1..Cardinality(S) -> S] : \A i, j \in 1..Cardinality(S) : s[i] = s[j] => i = j}

delete_metadata_with_children(g, m, order) ==
    LET m_key == _format_metdata(m) IN
    IF ~is_metadata(g, m_key) THEN Result(g, NotFound)
    ELSE LET r == _delete_snippets_with_only_m(g, m_key, order) IN
         IF r.err # OK THEN r
         ELSE LET d == deletev(r.G, m_key) IN
              Result([nodes |-> [k \in DOMAIN d.G.nodes \ successors(r.G, m_key) |->
                                    d.G.nodes[k]],
                      edges |-> {e \in d.G.edges :
                                    /\ e.src \notin successors(r.G, m_key)
                                    /\ e.dst \notin successors(r.G, m_key)}], d.err)

\* delete_metadata, with `order` the order list(snippets) happens to have
delete_metadata(g, m, order) ==
    LET m_key == _format_metdata(m) IN
    IF ~is_metadata(g, m_key) THEN Result(g, NotFound)
    ELSE LET r == _delete_snippets_with_only_m(g, m_key, order) IN
         IF r.err # OK THEN r
         ELSE deletev(r.G, m_key)

-----------------------------------------------------------------------------
(* MSMDiGraph: queries *)

\* _get_snippets_with_metadata_from_list: get_snippet of each key, in order;
\* the first get_snippet that raises ends the call
RECURSIVE _get_snippets_with_metadata_from_list(_, _)
_get_snippets_with_metadata_from_list(g, l) ==
    IF l = <<>> THEN [err |-> OK, value |-> <<>>]
    ELSE LET got == get_snippet(g, Head(l)) IN
         IF got.err # OK THEN [err |-> got.err, value |-> <<>>]
         ELSE LET rest == _get_snippets_with_metadata_from_list(g, Tail(l)) IN
              IF rest.err # OK THEN rest
              ELSE [err |-> OK,
                    value |-> <<[snippet |-> got.snippet,
                                 metadata_list |-> got.metadata_list]>> \o rest.value]

RECURSIVE _get_snippets_union_set_first_only(_, _)
_get_snippets_union_set_first_only(g, metadata_list) ==
    IF metadata_list = <<>> THEN {}
    ELSE _get_snippets_from_metadata(g, Head(metadata_list))

RECURSIVE _get_snippets_union_set(_, _)
_get_snippets_union_set(g, metadata_list) ==
    IF metadata_list = <<>> THEN {}
    ELSE _get_snippets_from_metadata(g, Head(metadata_list))
             \cup _get_snippets_union_set(g, Tail(metadata_list))

\* get_snippets_union, with `order` the order list(set) happens to have
get_snippets_union(g, metadata_list, order) ==
    _get_snippets_with_metadata_from_list(g, order)

RECURSIVE _get_snippets_intersection_set_no_single_case(_, _)
_get_snippets_intersection_set_no_single_case(g, metadata_list) ==
    IF metadata_list = <<>> THEN {}
    ELSE _get_snippets_from_metadata(g, Head(metadata_list))
             \cap _get_snippets_intersection_set_no_single_case(g, Tail(metadata_list))

RECURSIVE _get_snippets_intersection_set(_, _)
_get_snippets_intersection_set(g, metadata_list) ==
    IF metadata_list = <<>> THEN {}
    ELSE IF Len(metadata_list) = 1
    THEN _get_snippets_from_metadata(g, Head(metadata_list))
    ELSE _get_snippets_from_metadata(g, Head(metadata_list))
             \cap _get_snippets_intersection_set(g, Tail(metadata_list))

\* get_snippets_intersection, with `order` the order list(set) happens to have
get_snippets_intersection(g, metadata_list, order) ==
    _get_snippets_with_metadata_from_list(g, order)

-----------------------------------------------------------------------------
(* MSMDiGraph: metadata tree *)

\* getelabel: the label of the edge, None (no element) when there is no edge
getelabel(g, source_key, target_key) ==
    {e.label : e \in {x \in g.edges : x.src = source_key /\ x.dst = target_key}}

\* _filter_metadata_from_list: the metadata keys of l, in the order of l
RECURSIVE _filter_metadata_from_list(_, _)
_filter_metadata_from_list(g, l) ==
    IF l = <<>> THEN <<>>
    ELSE IF is_metadata(g, Head(l))
         THEN <<Head(l)>> \o _filter_metadata_from_list(g, Tail(l))
         ELSE _filter_metadata_from_list(g, Tail(l))

\* the elements of l that are not in S, in the order of l
RECURSIVE NotIn(_, _)
NotIn(l, S) ==
    IF l = <<>> THEN <<>>
    ELSE IF Head(l) \notin S THEN <<Head(l)>> \o NotIn(Tail(l), S)
         ELSE NotIn(Tail(l), S)

_collect_reachable_metadata_step_no_visited_test(g, worklist, visited, succ_list) ==
    LET metadata_succ == _filter_metadata_from_list(g, succ_list) IN
    [worklist |-> Tail(worklist) \o metadata_succ,
     visited |-> visited \cup Range(metadata_succ),
     appended |-> metadata_succ]

\* one call of _collect_reachable_metadata on a worklist that is not empty,
\* succ_list being self.successors(current): the worklist and the visited
\* set handed to the recursive call, and what was appended to the worklist
_collect_reachable_metadata_step(g, worklist, visited, succ_list) ==
    LET metadata_succ == _filter_metadata_from_list(g, succ_list)
        appended == NotIn(metadata_succ, visited)
    IN [worklist |-> Tail(worklist) \o appended,
        visited |-> visited \cup Range(metadata_succ),
        appended |-> appended]

\* the graph objects: the one of the store, and the one get_metadata_tree
\* makes with nx.DiGraph()
SELF_G == "self.G"
NEW_DIGRAPH == "nx.DiGraph()"

build_tree_in_store(g, reachable) ==
    [object |-> SELF_G,
     nodes |-> [k \in reachable |-> g.nodes[k]],
     edges |-> {[src |-> p[1], dst |-> p[2],
                 label |-> CHOOSE l \in getelabel(g, p[1], p[2]) : TRUE] :
                    p \in {q \in reachable \X reachable : q[2] \in successors(g, q[1])}}]

\* get_metadata_tree, after the collection: the nx.DiGraph built from the
\* reachable vertices, a graph object of its own whose attribute maps are
\* copies (add_node(node_key, **node_data))
build_tree(g, reachable) ==
    [object |-> NEW_DIGRAPH,
     nodes |-> [k \in reachable |-> g.nodes[k]],
     edges |-> {[src |-> p[1], dst |-> p[2],
                 label |-> CHOOSE l \in getelabel(g, p[1], p[2]) : TRUE] :
                    p \in {q \in reachable \X reachable : q[2] \in successors(g, q[1])}}]

\* _metadata_indegree, called on metadata only: the predecessors that are
\* metadata, whatever the label of the edge
_metadata_indegree(g, node_key) ==
    Cardinality({p \in predecessors(g, node_key) : is_metadata(g, p)})

RECURSIVE _filter_metadata_parents(_, _)
_filter_metadata_parents(g, m_list) ==
    IF m_list = <<>> THEN <<>>
    ELSE IF is_metadata(g, Head(m_list)) /\ _metadata_indegree(g, Head(m_list)) = 0
         THEN <<Head(m_list)>> \o _filter_metadata_parents(g, Tail(m_list))
         ELSE _filter_metadata_parents(g, Tail(m_list))

\* get_all_roots, with vertices_list the order self.G.nodes() happens to have
get_all_roots(g, vertices_list) == _filter_metadata_parents(g, vertices_list)

\* graph.get_whole_metadata_forest(): MSMDiGraph and ValidatedArangoGraph
\* define no such method, the call raises AttributeError
get_whole_metadata_forest(g) == [err |-> AttributeError, value |-> NoAttrs]

-----------------------------------------------------------------------------
(* Inputs of the operations *)

\* Metadata objects: two of one category, so that one can parent the other,
\* and one of the other category
Metadatas ==
    {Metadata(<<"a">>, concept).value, Metadata(<<"b">>, concept).value,
     Metadata(<<"a">>, language).value}

\* Snippet objects, as their constructor leaves them
Snippets ==
    {Snippet(<<"s">>, "x", <<"P", "Y">>, 1).value,
     Snippet(<<"t", ".", "t", "x", "t">>, "x", <<"p", "y">>, 1).value}

Contents == {"x", "y"}

\* metadata lists of length 0..MaxListLen, repetitions included
MetadataLists == UNION {[1..n -> Metadatas] : n \in 0..MaxListLen}

\* names handed to the operations that take a snippet name
SnippetNames == {sn.name : sn \in Snippets} \cup {<<"a", "-", "c", "o", "n", "c", "e", "p", "t">>}

\* Graph Store inputs
StoreKeys == {<<"u">>, <<"v">>, <<"w">>}
StoreData == {NoneData, SomeData([tag |-> "t"])}
Relations ==
    {Rel("RelationType", METADATA_PARENT), Rel("RelationType", HAS_METADATA),
     Rel("str", HAS_METADATA), Rel("Category", "concept")}

-----------------------------------------------------------------------------
(* State machine.  G is the graph.  The caller makes one call at a time:   *)
(* while a call is being reported, call, err and pre hold the call, its    *)
(* outcome and the graph it started from, and ret what a query returned;   *)
(* Return goes back to the caller, which may then make the next call.      *)

Idle == [op |-> "idle"]

\* nothing returned
NoRet == {}

\* no get_metadata_tree under way.  During one, walk holds the position of
\* the call (collecting, done), the worklist and the visited set of
\* _collect_reachable_metadata, and which vertices were put on the worklist
\* once, and which more than once
NoWalk == [pc |-> "none", worklist |-> <<>>, visited |-> {}, once |-> {}, twice |-> {}]

Init ==
    /\ G = EmptyGraph
    /\ call = Idle
    /\ err = OK
    /\ pre = EmptyGraph
    /\ ret = NoRet
    /\ walk = NoWalk

\* a call of a mutation
Do(c, r) ==
    /\ call = Idle
    /\ G' = r.G
    /\ err' = r.err
    /\ call' = c
    /\ pre' = G
    /\ ret' = NoRet
    /\ walk' = NoWalk

\* a call of a query: it writes nothing to the graph
Query(c, e, v) ==
    /\ call = Idle
    /\ err' = e
    /\ call' = c
    /\ pre' = G
    /\ ret' = v
    /\ walk' = NoWalk
    /\ UNCHANGED G

Return ==
    /\ call # Idle
    /\ walk.pc # "collect"
    /\ call' = Idle
    /\ err' = OK
    /\ pre' = G
    /\ ret' = NoRet
    /\ walk' = NoWalk
    /\ UNCHANGED G

InsertFreeMetadata ==
    /\ call = Idle
    /\ \E m \in Metadatas :
           Do([op |-> "insert_freemetadata", metadata |-> m], insert_freemetadata(G, m))

InsertMetadata ==
    /\ call = Idle
    /\ \E m \in Metadatas, p \in Metadatas, c \in Category :
           Do([op |-> "insert_metadata", metadata |-> m, parent |-> p, category |-> c],
              insert_metadata(G, m, p, c))

InsertSnippet ==
    /\ call = Idle
    /\ \E sn \in Snippets, l \in MetadataLists, c \in Category :
           Do([op |-> "insert_snippet", snippet |-> sn, metadata_list |-> l, category |-> c],
              insert_snippet(G, sn, l, c))

UpdateSnippetContent ==
    /\ call = Idle
    /\ \E n \in SnippetNames, c \in Contents :
           Do([op |-> "update_snippet_content", snippet_name |-> n, content |-> c],
              update_snippet_content(G, n, c))

DeleteSnippet ==
    /\ call = Idle
    /\ \E n \in SnippetNames :
           Do([op |-> "delete_snippet", snippet_name |-> n], delete_snippet(G, n))

DeleteMetadata ==
    /\ call = Idle
    /\ \E m \in Metadatas :
           \E order \in Orderings(_get_snippets_from_metadata(G, m)) :
               Do([op |-> "delete_metadata", metadata |-> m], delete_metadata(G, m, order))

GetSnippet ==
    /\ call = Idle
    /\ \E n \in SnippetNames :
           \E r \in {get_snippet(G, n)} :
               Query([op |-> "get_snippet", snippet_name |-> n], r.err,
                     [snippet |-> r.snippet, metadata_list |-> r.metadata_list])

GetSnippetsFromMetadata ==
    /\ call = Idle
    /\ \E m \in Metadatas :
           Query([op |-> "_get_snippets_from_metadata", metadata |-> m],
                 OK, _get_snippets_from_metadata(G, m))

GetSnippetsUnion ==
    /\ call = Idle
    /\ \E l \in MetadataLists :
           \E order \in Orderings(_get_snippets_union_set(G, l)) :
               LET r == get_snippets_union(G, l, order) IN
               Query([op |-> "get_snippets_union", metadata_list |-> l], r.err, r.value)

GetSnippetsIntersection ==
    /\ call = Idle
    /\ \E l \in MetadataLists :
           \E order \in Orderings(_get_snippets_intersection_set(G, l)) :
               LET r == get_snippets_intersection(G, l, order) IN
               Query([op |-> "get_snippets_intersection", metadata_list |-> l],
                     r.err, r.value)

Next ==
    \/ InsertFreeMetadata
    \/ InsertMetadata
    \/ InsertSnippet
    \/ UpdateSnippetContent
    \/ DeleteSnippet
    \/ DeleteMetadata
    \/ GetSnippet
    \/ GetSnippetsFromMetadata
    \/ GetSnippetsUnion
    \/ GetSnippetsIntersection
    \/ Return

Spec == Init /\ [][Next]_vars

-----------------------------------------------------------------------------
(* The operations that write vertices and edges, on a hierarchy of three   *)
(* concepts and one language, with one snippet.                            *)

HierarchyMetadatas == Metadatas \cup {Metadata(<<"c">>, concept).value}

\* a snippet asked for under the key of a metadata
HierarchySnippet ==
    Snippet(_format_metdata(Metadata(<<"a">>, concept).value), "x", <<"P", "Y">>, 1).value

HierarchyLists == UNION {[1..n -> HierarchyMetadatas] : n \in 0..MaxListLen}

HierarchyInsertFreeMetadata ==
    /\ call = Idle
    /\ \E m \in HierarchyMetadatas :
           Do([op |-> "insert_freemetadata", metadata |-> m], insert_freemetadata(G, m))

HierarchyInsertMetadata ==
    /\ call = Idle
    /\ \E m \in HierarchyMetadatas, p \in HierarchyMetadatas, c \in Category :
           Do([op |-> "insert_metadata", metadata |-> m, parent |-> p, category |-> c],
              insert_metadata(G, m, p, c))

HierarchyInsertSnippet ==
    /\ call = Idle
    /\ \E l \in HierarchyLists, c \in Category :
           Do([op |-> "insert_snippet", snippet |-> HierarchySnippet,
               metadata_list |-> l, category |-> c],
              insert_snippet(G, HierarchySnippet, l, c))

HierarchyDeleteSnippet ==
    /\ call = Idle
    /\ Do([op |-> "delete_snippet", snippet_name |-> HierarchySnippet.name],
          delete_snippet(G, HierarchySnippet.name))

HierarchyDeleteMetadata ==
    /\ call = Idle
    /\ \E m \in HierarchyMetadatas :
           \E order \in Orderings(_get_snippets_from_metadata(G, m)) :
               Do([op |-> "delete_metadata", metadata |-> m], delete_metadata(G, m, order))

HierarchyNext ==
    \/ HierarchyInsertFreeMetadata
    \/ HierarchyInsertMetadata
    \/ HierarchyInsertSnippet
    \/ HierarchyDeleteSnippet
    \/ HierarchyDeleteMetadata
    \/ Return

HierarchySpec == Init /\ [][HierarchyNext]_vars

-----------------------------------------------------------------------------
(* insert_snippet and delete_metadata one write at a time.  Each of them   *)
(* is a sequence of calls of insertv, inserte and deletev on the store,    *)
(* with no transaction around them and nothing that undoes the writes      *)
(* already made; the process may stop between any two of them.  During     *)
(* such a call walk.pc is "link", "delete_snippets", "stopped" or "done"   *)
(* and walk.worklist the part of the list that is still to be handled.     *)

Step(g, e, rest, done) == [G |-> g, err |-> e, rest |-> rest, done |-> done]

_insert_metadata_list_for_snippet_step_whole(g, snippet_key, metadata_list, category) ==
    LET r == _insert_metadata_list_for_snippet(g, snippet_key, metadata_list, category)
    IN Step(r.G, r.err, IF metadata_list = <<>> THEN <<>> ELSE Tail(metadata_list),
            r.err # OK \/ metadata_list = <<>>)

\* one level of the recursion of _insert_metadata_list_for_snippet
_insert_metadata_list_for_snippet_step(g, snippet_key, metadata_list, category) ==
    IF ~is_snippet(g, snippet_key) THEN Step(g, NotFound, <<>>, TRUE)
    ELSE LET c == _metadata_present_same_cat(g, metadata_list, category) IN
         IF c # OK THEN Step(g, c, <<>>, TRUE)
         ELSE IF metadata_list = <<>> THEN Step(g, OK, <<>>, TRUE)
         ELSE LET r == inserte(g, snippet_key, _format_metdata(Head(metadata_list)),
                               Rel("RelationType", HAS_METADATA))
              IN IF r.err # OK THEN Step(r.G, r.err, <<>>, TRUE)
                 ELSE Step(r.G, OK, Tail(metadata_list), FALSE)

\* one level of the recursion of _delete_snippets_with_only_m, on a list
\* that is not empty
_delete_snippets_with_only_m_step(g, m_key, s_keys) ==
    IF _only_metadata_of_snippet(g, m_key, Head(s_keys))
    THEN LET r == delete_snippet(g, Head(s_keys)) IN
         IF r.err # OK THEN Step(r.G, r.err, <<>>, TRUE)
         ELSE Step(r.G, OK, Tail(s_keys), FALSE)
    ELSE Step(g, OK, Tail(s_keys), FALSE)

StepWalk(pc, rest) == [NoWalk EXCEPT !.pc = pc, !.worklist = rest]

\* insert_snippet up to and including insertv
InsertSnippetBegin ==
    /\ call = Idle
    /\ \E sn \in Snippets, l \in MetadataLists, c \in Category :
           /\ call' = [op |-> "insert_snippet", snippet |-> sn, metadata_list |-> l,
                       category |-> c]
           /\ pre' = G
           /\ ret' = NoRet
           /\ IF memv(G, sn.name) \/ Len(l) < 1
              THEN /\ err' = insert_snippet(G, sn, l, c).err
                   /\ walk' = StepWalk("done", <<>>)
                   /\ UNCHANGED G
              ELSE \E r \in {insertv(G, SomeData(Snippet_model_dump(sn)), sn.name)} :
                      /\ G' = r.G
                      /\ err' = r.err
                      /\ walk' = IF r.err # OK THEN StepWalk("done", <<>>)
                                  ELSE StepWalk("link", l)

\* the next has_metadata edge, or the end of the list
InsertSnippetLink ==
    /\ call.op = "insert_snippet"
    /\ walk.pc = "link"
    /\ \E r \in {_insert_metadata_list_for_snippet_step(
                       G, call.snippet.name, walk.worklist, call.category)} :
           /\ G' = r.G
           /\ err' = r.err
           /\ walk' = StepWalk(IF r.done THEN "done" ELSE "link", r.rest)
    /\ UNCHANGED <<call, pre, ret>>

\* delete_metadata up to list(snippets)
DeleteMetadataBegin ==
    /\ call = Idle
    /\ \E m \in Metadatas :
           \E order \in Orderings(_get_snippets_from_metadata(G, m)) :
               /\ call' = [op |-> "delete_metadata", metadata |-> m]
               /\ pre' = G
               /\ ret' = NoRet
               /\ IF ~is_metadata(G, _format_metdata(m))
                  THEN /\ err' = NotFound
                       /\ walk' = StepWalk("done", <<>>)
                  ELSE /\ err' = OK
                       /\ walk' = StepWalk("delete_snippets", order)
               /\ UNCHANGED G

\* the next snippet of the list
DeleteMetadataSnippet ==
    /\ call.op = "delete_metadata"
    /\ walk.pc = "delete_snippets"
    /\ walk.worklist # <<>>
    /\ \E r \in {_delete_snippets_with_only_m_step(
                       G, _format_metdata(call.metadata), walk.worklist)} :
           /\ G' = r.G
           /\ err' = r.err
           /\ walk' = StepWalk(IF r.done THEN "done" ELSE "delete_snippets", r.rest)
    /\ UNCHANGED <<call, pre, ret>>

\* the list is done: deletev(m_key)
DeleteMetadataVertex ==
    /\ call.op = "delete_metadata"
    /\ walk.pc = "delete_snippets"
    /\ walk.worklist = <<>>
    /\ \E r \in {deletev(G, _format_metdata(call.metadata))} :
           /\ G' = r.G
           /\ err' = r.err
    /\ walk' = StepWalk("done", <<>>)
    /\ UNCHANGED <<call, pre, ret>>

\* the process stops between two writes: what was written stays written
Stop ==
    /\ walk.pc \in {"link", "delete_snippets"}
    /\ walk' = [walk EXCEPT !.pc = "stopped"]
    /\ UNCHANGED <<G, call, err, pre, ret>>

\* back to the caller, or a new process after a stop
StepReturn ==
    /\ walk.pc \in {"none", "done", "stopped"}
    /\ Return

StepNext ==
    \/ InsertFreeMetadata
    \/ InsertSnippetBegin
    \/ InsertSnippetLink
    \/ DeleteMetadataBegin
    \/ DeleteMetadataSnippet
    \/ DeleteMetadataVertex
    \/ Stop
    \/ StepReturn

StepSpec == Init /\ [][StepNext]_vars

(* Graph Store operations called directly *)

Insertv ==
    /\ call = Idle
    /\ \E k \in StoreKeys, d \in StoreData :
           Do([op |-> "insertv", node_key |-> k, node_data |-> d], insertv(G, d, k))

Deletev ==
    /\ call = Idle
    /\ \E k \in StoreKeys :
           Do([op |-> "deletev", node_key |-> k], deletev(G, k))

Inserte ==
    /\ call = Idle
    /\ Cardinality(G.edges) < MaxEdges
    /\ \E s \in StoreKeys, t \in StoreKeys, r \in Relations :
        Do([op |-> "inserte", source_key |-> s, target_key |-> t, relation_type |-> r],
           inserte(G, s, t, r))

Deletee ==
    /\ call = Idle
    /\ \E s \in StoreKeys, t \in StoreKeys :
           Do([op |-> "deletee", source_key |-> s, target_key |-> t], deletee(G, s, t))

Updatev ==
    /\ call = Idle
    /\ \E k \in StoreKeys, d \in StoreData :
           Do([op |-> "updatev", node_key |-> k, node_data |-> d], updatev(G, k, d))

Successors ==
    /\ call = Idle
    /\ \E k \in StoreKeys :
           \E r \in {successors_of(G, k)} :
               Query([op |-> "successors", node_key |-> k], r.err, r.value)

Predecessors ==
    /\ call = Idle
    /\ \E k \in StoreKeys :
           \E r \in {predecessors_of(G, k)} :
               Query([op |-> "predecessors", node_key |-> k], r.err, r.value)

Indegree ==
    /\ call = Idle
    /\ \E k \in StoreKeys :
           \E r \in {indegree(G, k)} :
               Query([op |-> "indegree", node_key |-> k], r.err, r.value)

Outdegree ==
    /\ call = Idle
    /\ \E k \in StoreKeys :
           \E r \in {outdegree(G, k)} :
               Query([op |-> "outdegree", node_key |-> k], r.err, r.value)

Degree ==
    /\ call = Idle
    /\ \E k \in StoreKeys :
           \E r \in {degree(G, k)} :
               Query([op |-> "degree", node_key |-> k], r.err, r.value)

Getelabel ==
    /\ call = Idle
    /\ \E s \in StoreKeys, t \in StoreKeys :
           Query([op |-> "getelabel", source_key |-> s, target_key |-> t],
                 OK, getelabel(G, s, t))

StoreNext ==
    \/ Insertv
    \/ Deletev
    \/ Inserte
    \/ Deletee
    \/ Updatev
    \/ Successors
    \/ Predecessors
    \/ Indegree
    \/ Outdegree
    \/ Degree
    \/ Getelabel
    \/ Return

StoreSpec == Init /\ [][StoreNext]_vars

(* get_metadata_tree on graphs whose edges among the metadata are          *)
(* arbitrary, cycles and self-loops included                               *)

TreeMetadatas ==
    {Metadata(<<"a">>, concept).value, Metadata(<<"b">>, concept).value,
     Metadata(<<"c">>, concept).value}

TreeMetadataKeys == {_format_metdata(m) : m \in TreeMetadatas}

TreeSnippet == Snippet(<<"s">>, "x", <<"p", "y">>, 1).value

\* the edges inserte accepts on the pairs P of keys, one label for each pair
LabelledEdges(P) ==
    {{[src |-> p[1], dst |-> p[2], label |-> lab[p]] : p \in P} :
        lab \in [P -> {METADATA_PARENT, HAS_METADATA}]}

\* graphs insertv and inserte can build from three metadata and a snippet:
\* at most MaxParentEdges edges among the metadata, and a has_metadata edge
\* from the snippet to the first metadata
TreeGraphs ==
    {[nodes |-> [k \in TreeMetadataKeys \cup {TreeSnippet.name} |->
                    IF k = TreeSnippet.name THEN Snippet_model_dump(TreeSnippet)
                    ELSE Metadata_model_dump(_parse_metadata(k).value)],
      edges |-> E \cup {[src |-> TreeSnippet.name,
                         dst |-> _format_metdata(Metadata(<<"a">>, concept).value),
                         label |-> HAS_METADATA]}] :
        E \in UNION {LabelledEdges(P) :
                        P \in {Q \in SUBSET (TreeMetadataKeys \X TreeMetadataKeys) :
                                  Cardinality(Q) <= MaxParentEdges}}}

\* keys handed to get_metadata_tree: the metadata, the snippet, an absent key
TreeRoots ==
    TreeMetadataKeys \cup {TreeSnippet.name}
        \cup {_format_metdata(Metadata(<<"z">>, concept).value)}

TreeInit ==
    /\ G \in TreeGraphs
    /\ call = Idle
    /\ err = OK
    /\ pre = G
    /\ ret = NoRet
    /\ walk = NoWalk

\* get_metadata_tree, up to the first call of _collect_reachable_metadata
GetMetadataTree ==
    /\ call = Idle
    /\ \E k \in TreeRoots :
           /\ call' = [op |-> "get_metadata_tree", metadata_key |-> k]
           /\ pre' = G
           /\ ret' = NoRet
           /\ IF ~is_metadata(G, k)
              THEN err' = NotFound /\ walk' = NoWalk
              ELSE /\ err' = OK
                   /\ walk' = [pc |-> "collect", worklist |-> <<k>>, visited |-> {k},
                               once |-> {k}, twice |-> {}]
    /\ UNCHANGED G

\* the vertices of `appended` that are in `once` or twice in `appended`
EnqueuedAgain(appended, once) ==
    {appended[i] : i \in {j \in 1..Len(appended) :
                             \/ appended[j] \in once
                             \/ \E k \in 1..Len(appended) :
                                    k # j /\ appended[k] = appended[j]}}

\* one call of _collect_reachable_metadata with a worklist that is not empty
CollectStep ==
    /\ walk.pc = "collect"
    /\ walk.worklist # <<>>
    /\ \E succ_list \in Orderings(successors(G, Head(walk.worklist))) :
           \E r \in {_collect_reachable_metadata_step(
                         G, walk.worklist, walk.visited, succ_list)} :
               walk' = [pc |-> "collect", worklist |-> r.worklist, visited |-> r.visited,
                        once |-> walk.once \cup Range(r.appended),
                        twice |-> walk.twice \cup EnqueuedAgain(r.appended, walk.once)]
    /\ UNCHANGED <<G, call, err, pre, ret>>

\* the call of _collect_reachable_metadata with the empty worklist returns
\* the visited set, and get_metadata_tree builds the tree from it; ret holds
\* the one tree returned
BuildTree ==
    /\ walk.pc = "collect"
    /\ walk.worklist = <<>>
    /\ ret' = {build_tree(G, walk.visited)}
    /\ walk' = [walk EXCEPT !.pc = "done"]
    /\ UNCHANGED <<G, call, err, pre>>

TreeNext ==
    \/ GetMetadataTree
    \/ CollectStep
    \/ BuildTree
    \/ Return

TreeSpec == TreeInit /\ [][TreeNext]_vars

\* the recursion of _collect_reachable_metadata and the loops of
\* get_metadata_tree run on without waiting for anything
TreeSpecFair == TreeSpec /\ WF_vars(CollectStep) /\ WF_vars(BuildTree)

(* The caller changing the tree it was given *)

\* what the caller may do to a graph t: add a vertex, remove one, add an
\* edge between two of its vertices, remove one
TreeMutations(t) ==
    {[kind |-> "add_node", key |-> <<"n">>]}
        \cup {[kind |-> "remove_node", key |-> k] : k \in DOMAIN t.nodes}
        \cup {[kind |-> "add_edge", src |-> p[1], dst |-> p[2]] :
                  p \in (DOMAIN t.nodes) \X (DOMAIN t.nodes)}
        \cup {[kind |-> "remove_edge", src |-> e.src, dst |-> e.dst] : e \in t.edges}

Mutated(g, mut) ==
    CASE mut.kind = "add_node" -> add_node(g, mut.key, NoAttrs)
      [] mut.kind = "remove_node" -> remove_node(g, mut.key)
      [] mut.kind = "add_edge" -> add_edge(g, mut.src, mut.dst, METADATA_PARENT)
      [] mut.kind = "remove_edge" -> remove_edge(g, mut.src, mut.dst)

\* one change to the tree get_metadata_tree returned: it reaches the store
\* when the tree is the graph object of the store
MutateTree ==
    /\ walk.pc = "done"
    /\ \E tree \in ret :
           \E mut \in TreeMutations(tree) :
               \E t \in {Mutated([nodes |-> tree.nodes, edges |-> tree.edges], mut)} :
                   /\ ret' = {[object |-> tree.object, nodes |-> t.nodes, edges |-> t.edges]}
                   /\ G' = IF tree.object = SELF_G THEN Mutated(G, mut) ELSE G
    /\ walk' = [walk EXCEPT !.pc = "mutated"]
    /\ UNCHANGED <<call, err, pre>>

TreeUseNext ==
    \/ GetMetadataTree
    \/ CollectStep
    \/ BuildTree
    \/ MutateTree
    \/ Return

TreeUseSpec == TreeInit /\ [][TreeUseNext]_vars

(* get_all_roots and the forest of main.py on the same graphs *)

GetAllRoots ==
    /\ call = Idle
    /\ \E vertices_list \in Orderings(DOMAIN G.nodes) :
           Query([op |-> "get_all_roots"], OK, get_all_roots(G, vertices_list))

\* _handle_get_metadata_forest, up to the call it makes on the graph
GetWholeMetadataForest ==
    /\ call = Idle
    /\ \E r \in {get_whole_metadata_forest(G)} :
           Query([op |-> "get_whole_metadata_forest"], r.err, r.value)

ForestNext ==
    \/ GetAllRoots
    \/ GetWholeMetadataForest
    \/ Return

ForestSpec == TreeInit /\ [][ForestNext]_vars

(* The queries, with what they do to the store while they read it, on the  *)
(* graphs the mutations make from the empty graph.                         *)

_node_data_with_key_store_no_copy(g, node_key) ==
    [g EXCEPT !.nodes[node_key] = _node_data_with_name(g, node_key)]

\* the store after _node_data_with_key: node = dict(self.G.nodes[node_key])
\* is a copy, and node[key_field] = node_key goes to the copy
_node_data_with_key_store(g, node_key) == g

\* the store after is_snippet was called on each of keys: it reaches
\* _node_data_with_key for the keys that are vertices
StoreAfterIsSnippet(g, keys) ==
    [nodes |-> [k \in DOMAIN g.nodes |->
                   IF k \in keys THEN _node_data_with_key_store(g, k).nodes[k]
                   ELSE g.nodes[k]],
     edges |-> g.edges]

\* the keys _get_snippets_from_metadata passes to is_snippet
PredecessorsRead(g, m) ==
    IF ~memv(g, _format_metdata(m)) THEN {} ELSE predecessors(g, _format_metdata(m))

\* a call of a query, with the keys it has passed to is_snippet
Read(c, e, v, keys) ==
    /\ call = Idle
    /\ G' = StoreAfterIsSnippet(G, keys)
    /\ err' = e
    /\ call' = c
    /\ pre' = G
    /\ ret' = v
    /\ walk' = NoWalk

\* _filter_snippets_from_vertices, in the order of the list
RECURSIVE _filter_snippets_from_vertices_list(_, _)
_filter_snippets_from_vertices_list(g, l) ==
    IF l = <<>> THEN <<>>
    ELSE LET tail == _filter_snippets_from_vertices_list(g, Tail(l)) IN
         IF is_snippet(g, Head(l)) THEN <<Head(l)>> \o tail ELSE tail

get_all_snippets_of_every_vertex(g, vertices_list) ==
    _get_snippets_with_metadata_from_list(g, vertices_list)

\* get_all_snippets, with vertices_list the order of self.G.nodes()
get_all_snippets(g, vertices_list) ==
    _get_snippets_with_metadata_from_list(
        g, _filter_snippets_from_vertices_list(g, vertices_list))

ReadSnippet ==
    /\ call = Idle
    /\ \E n \in SnippetNames :
           \E r \in {get_snippet(G, n)} :
               Read([op |-> "get_snippet", snippet_name |-> n], r.err,
                    [snippet |-> r.snippet, metadata_list |-> r.metadata_list], {n})

ReadAllSnippets ==
    /\ call = Idle
    /\ \E vertices_list \in Orderings(DOMAIN G.nodes) :
           \E r \in {get_all_snippets(G, vertices_list)} :
               Read([op |-> "get_all_snippets"], r.err, r.value, Range(vertices_list))

ReadSnippetsFromMetadata ==
    /\ call = Idle
    /\ \E m \in Metadatas :
           Read([op |-> "_get_snippets_from_metadata", metadata |-> m],
                OK, _get_snippets_from_metadata(G, m), PredecessorsRead(G, m))

ReadSnippetsUnion ==
    /\ call = Idle
    /\ \E l \in MetadataLists :
           \E order \in Orderings(_get_snippets_union_set(G, l)) :
               \E r \in {get_snippets_union(G, l, order)} :
                   Read([op |-> "get_snippets_union", metadata_list |-> l], r.err, r.value,
                        UNION {PredecessorsRead(G, l[i]) : i \in 1..Len(l)})

ReadSnippetsIntersection ==
    /\ call = Idle
    /\ \E l \in MetadataLists :
           \E order \in Orderings(_get_snippets_intersection_set(G, l)) :
               \E r \in {get_snippets_intersection(G, l, order)} :
                   Read([op |-> "get_snippets_intersection", metadata_list |-> l],
                        r.err, r.value,
                        UNION {PredecessorsRead(G, l[i]) : i \in 1..Len(l)})

QueryNext ==
    \/ InsertFreeMetadata
    \/ InsertMetadata
    \/ InsertSnippet
    \/ DeleteSnippet
    \/ DeleteMetadata
    \/ ReadSnippet
    \/ ReadAllSnippets
    \/ ReadSnippetsFromMetadata
    \/ ReadSnippetsUnion
    \/ ReadSnippetsIntersection
    \/ GetAllRoots
    \/ GetMetadataTree
    \/ CollectStep
    \/ BuildTree
    \/ Return

QuerySpec == Init /\ [][QueryNext]_vars

-----------------------------------------------------------------------------
(* is_metadata and is_snippet on graphs of one vertex of any key and any    *)
(* attributes, as insertv builds them                                      *)

ClassifyNames == {<<>>, <<"a">>, <<"A">>, <<"a", "_", "0">>}

ClassifyCategories ==
    {<<>>, concept, language, <<"C">> \o Tail(concept), concept \o <<".", "p", "y">>,
     <<"b", "-">> \o concept}

\* keys with and without a separator, with good and bad names and categories
ClassifyKeys ==
    {n \o sep \o c : n \in ClassifyNames, sep \in {<<>>, <<"-">>}, c \in ClassifyCategories}

\* an extension one letter longer than max_length
LongExtension == [i \in 1..(MaxExtLen + 1) |-> "a"]

ClassifyAttrs ==
    {NoAttrs,
     [name |-> <<"a">>, category |-> concept],
     [content |-> "x"],
     [extension |-> <<"p", "y">>],
     [content |-> "x", extension |-> <<"p", "y">>],
     [content |-> "x", extension |-> <<"P", "Y">>],
     [content |-> "x", extension |-> <<"p", "1">>],
     [content |-> "x", extension |-> LongExtension],
     [name |-> <<"s", ".", "p", "y">>, content |-> "x", extension |-> <<"p", "y">>,
      created_at |-> 1]}

ClassifyInit ==
    /\ G \in {EmptyGraph} \cup {add_node(EmptyGraph, k, a) :
                                   k \in ClassifyKeys, a \in ClassifyAttrs}
    /\ call = Idle
    /\ err = OK
    /\ pre = G
    /\ ret = NoRet
    /\ walk = NoWalk

IsMetadata ==
    /\ call = Idle
    /\ \E k \in ClassifyKeys :
           Query([op |-> "is_metadata", node_key |-> k], OK, is_metadata(G, k))

IsSnippet ==
    /\ call = Idle
    /\ \E k \in ClassifyKeys :
           Query([op |-> "is_snippet", node_key |-> k], OK, is_snippet(G, k))

ClassifyNext ==
    \/ IsMetadata
    \/ IsSnippet
    \/ Return

ClassifySpec == ClassifyInit /\ [][ClassifyNext]_vars

(* _format_metdata and _parse_metadata on their own *)

\* characters the names are made of; "-" is the one the pattern rejects
NameChars == {"a", "0", "_", "-"}

\* the Metadata values the constructor accepts, of names up to MaxNameLen
CodecMetadatas ==
    {x.value : x \in {y \in {Metadata(n, c) :
                                n \in UNION {[1..len -> NameChars] : len \in 1..MaxNameLen},
                                c \in Category} : y.ok}}

\* two Metadata values about to be formatted
CodecInit ==
    /\ G = EmptyGraph
    /\ call \in {[op |-> "format", m1 |-> a, m2 |-> b] : a, b \in CodecMetadatas}
    /\ err = OK
    /\ pre = EmptyGraph
    /\ ret = NoRet
    /\ walk = NoWalk

\* _format_metdata of the two values
FormatMetadata ==
    /\ call.op = "format"
    /\ call' = [call EXCEPT !.op = "parse"]
    /\ ret' = [key1 |-> _format_metdata(call.m1), key2 |-> _format_metdata(call.m2)]
    /\ UNCHANGED <<G, err, pre, walk>>

\* _parse_metadata of the first key
ParseMetadata ==
    /\ call.op = "parse"
    /\ call' = [call EXCEPT !.op = "parsed"]
    /\ ret' = [key1 |-> ret.key1, key2 |-> ret.key2, parsed |-> _parse_metadata(ret.key1)]
    /\ UNCHANGED <<G, err, pre, walk>>

CodecNext ==
    \/ FormatMetadata
    \/ ParseMetadata

CodecSpec == CodecInit /\ [][CodecNext]_vars

-----------------------------------------------------------------------------
(* Properties *)

OutEdges(g, k) == {e \in g.edges : e.src = k}

\* the vertices other than k, and their attributes, are those of g0
SameOtherNodes(g, g0, k) ==
    /\ DOMAIN g.nodes \ {k} = DOMAIN g0.nodes \ {k}
    /\ \A j \in DOMAIN g0.nodes \ {k} : g.nodes[j] = g0.nodes[j]

\* vertices reachable from the set S along metadata_parent edges
RECURSIVE ParentClosure(_, _)
ParentClosure(g, S) ==
    LET step == S \cup {e.dst : e \in {x \in g.edges :
                                        x.src \in S /\ x.label = METADATA_PARENT}}
    IN IF step = S THEN S ELSE ParentClosure(g, step)

\* the subtree under c: its vertices with their attributes, and the edges among them
Subtree(g, c) ==
    LET R == ParentClosure(g, {c}) IN
    [nodes |-> [k \in R \cap DOMAIN g.nodes |-> g.nodes[k]],
     edges |-> {e \in g.edges : e.src \in R /\ e.dst \in R}]

\* C1: an insert_snippet that fails because an entry of the metadata list is
\* not an existing metadata vertex, or is of another category, leaves the
\* graph exactly as it was before the call.
C1_InsertSnippetNoPartialApply ==
    (call.op = "insert_snippet" /\ err \in {MetadataNotFound, CategoryMismatch})
        => G = pre

\* C2: every snippet vertex has at least one outgoing has_metadata edge, and
\* all the metadata vertices it is linked to have the same category.
C2_SnippetsLinkedSameCategory ==
    \A k \in DOMAIN G.nodes :
        is_snippet(G, k) =>
            /\ \E e \in OutEdges(G, k) : e.label = HAS_METADATA
            /\ \A e1, e2 \in OutEdges(G, k) :
                   _parse_metadata(e1.dst).value.category
                       = _parse_metadata(e2.dst).value.category

\* C3: delete_metadata of an existing metadata vertex succeeds, removes every
\* snippet that was a predecessor of it with exactly one outgoing edge, and
\* removes the metadata vertex.
C3_DeleteMetadataCascade ==
    (call.op = "delete_metadata" /\ is_metadata(pre, _format_metdata(call.metadata)))
        => LET m_key == _format_metdata(call.metadata) IN
           /\ err = OK
           /\ ~memv(G, m_key)
           /\ \A sk \in predecessors(pre, m_key) :
                  (is_snippet(pre, sk) /\ Cardinality(OutEdges(pre, sk)) = 1)
                      => ~memv(G, sk)

\* a snippet whose only link was the deleted metadata is gone, and another
\* snippet linked to it and to a second metadata is still there
C3_Witness ==
    /\ call.op = "delete_metadata"
    /\ err = OK
    /\ LET m_key == _format_metdata(call.metadata) IN
       /\ \E sk \in predecessors(pre, m_key) :
              is_snippet(pre, sk) /\ Cardinality(OutEdges(pre, sk)) = 1 /\ ~memv(G, sk)
       /\ \E sk \in predecessors(pre, m_key) :
              is_snippet(pre, sk) /\ Cardinality(OutEdges(pre, sk)) = 2 /\ memv(G, sk)

C5_DeleteVertexRemovesIncidence ==
    (call.op = "deletev" /\ err = OK)
        => LET k == call.node_key IN
           /\ ~memv(G, k)
           /\ \A e \in G.edges : e.src # k /\ e.dst # k
           /\ \A v \in DOMAIN G.nodes :
                  k \notin successors(G, v) /\ k \notin predecessors(G, v)

\* the deleted vertex had an edge to another vertex and an edge from one
C5_Witness ==
    /\ call.op = "deletev"
    /\ err = OK
    /\ \E e1, e2 \in pre.edges :
           /\ e1.src = call.node_key /\ e1.dst # call.node_key
           /\ e2.dst = call.node_key /\ e2.src # call.node_key
           /\ memv(G, e1.dst) /\ memv(G, e2.src)

\* the attribute map insertv stores for its node_data argument
GivenData(node_data) ==
    IF node_data = NoneData THEN NoAttrs ELSE CHOOSE d \in node_data : TRUE

\* C6: insertv on an absent key succeeds and makes the key a vertex with the
\* given attribute map; on a present key it fails with AlreadyExists and
\* leaves that vertex's attributes and the rest of the graph unchanged.
C6_InsertVertex ==
    call.op = "insertv"
        => LET k == call.node_key IN
           IF memv(pre, k)
           THEN err = AlreadyExists /\ G = pre
           ELSE /\ err = OK
                /\ memv(G, k)
                /\ G.nodes[k] = GivenData(call.node_data)
                /\ SameOtherNodes(G, pre, k)
                /\ G.edges = pre.edges

\* a second insertv on a key, with attributes other than the stored ones
C6_Witness ==
    /\ call.op = "insertv"
    /\ err = AlreadyExists
    /\ memv(G, call.node_key)
    /\ G.nodes[call.node_key] # GivenData(call.node_data)

\* C7: inserte fails with InvalidRelation when the relation type is no member
\* of RelationType, else with NotFound when an endpoint is no vertex, else
\* with AlreadyExists when the ordered pair has an edge, the graph being
\* unchanged in each case; otherwise it adds exactly the edge (src, dst) with
\* the label of the relation type.
C7_InsertEdge ==
    call.op = "inserte"
        => LET s == call.source_key
               t == call.target_key
               r == call.relation_type
               expected ==
                   IF ~(r.cls = "RelationType" /\ r.value \in RelationType)
                   THEN InvalidRelation
                   ELSE IF ~memv(pre, s) \/ ~memv(pre, t) THEN NotFound
                   ELSE IF \E e \in pre.edges : e.src = s /\ e.dst = t
                   THEN AlreadyExists
                   ELSE OK
           IN /\ err = expected
              /\ err # OK => G = pre
              /\ err = OK =>
                    /\ G.nodes = pre.nodes
                    /\ G.edges = pre.edges
                                    \cup {[src |-> s, dst |-> t, label |-> r.value]}
                    /\ Cardinality(G.edges) = Cardinality(pre.edges) + 1

\* an inserte on a pair that has an edge of the other label
C7_Witness ==
    /\ call.op = "inserte"
    /\ err = AlreadyExists
    /\ \E e \in G.edges :
           /\ e.src = call.source_key
           /\ e.dst = call.target_key
           /\ e.label # call.relation_type.value

\* C8: under the Graph Store operations every edge has both endpoints among
\* the vertices, no ordered pair has two edges, and every edge carries a
\* label of RelationType.
C8_EdgesWellFormed ==
    /\ \A e \in G.edges :
           memv(G, e.src) /\ memv(G, e.dst) /\ e.label \in RelationType
    /\ \A e1, e2 \in G.edges :
           (e1.src = e2.src /\ e1.dst = e2.dst) => e1 = e2

\* a vertex was deleted with one of its edges, and an edge is left
C8_Witness ==
    /\ call.op = "deletev"
    /\ err = OK
    /\ G.edges # {}
    /\ G.edges # pre.edges

\* the three categories of an insert_metadata call agree
CategoriesAgree(c) ==
    c.metadata.category = c.category /\ c.parent.category = c.category

\* C9 as stated: insert_metadata with the parent vertex absent fails with
\* ParentNotFound and creates no vertex and no edge.
C9_ParentAbsentFailsParentNotFound ==
    (call.op = "insert_metadata" /\ ~is_metadata(pre, _format_metdata(call.parent)))
        => (err = ParentNotFound /\ G = pre)

\* C9, amended: insert_metadata with the parent vertex absent fails and
\* creates no vertex and no edge; it fails with ParentNotFound when the
\* categories of child, parent and call agree, with CategoryMismatch when not.
C9_ParentAbsentFails ==
    (call.op = "insert_metadata" /\ ~is_metadata(pre, _format_metdata(call.parent)))
        => /\ G = pre
           /\ err = IF CategoriesAgree(call) THEN ParentNotFound ELSE CategoryMismatch

\* the parent is absent, and so is the child, in a graph that is not empty
C9_Witness ==
    /\ call.op = "insert_metadata"
    /\ err = ParentNotFound
    /\ ~memv(pre, _format_metdata(call.parent))
    /\ ~memv(G, _format_metdata(call.metadata))
    /\ DOMAIN G.nodes # {}

\* C10: a successful insert_metadata adds exactly the child vertex, absent
\* before, and exactly the edge parent -> child labelled metadata_parent;
\* every other vertex and edge is unchanged.
C10_InsertMetadataEffect ==
    (call.op = "insert_metadata" /\ err = OK)
        => LET child == _format_metdata(call.metadata)
               parent == _format_metdata(call.parent)
               edge == [src |-> parent, dst |-> child, label |-> METADATA_PARENT]
           IN /\ ~memv(pre, child)
              /\ DOMAIN G.nodes = DOMAIN pre.nodes \cup {child}
              /\ G.nodes[child] = Metadata_model_dump(call.metadata)
              /\ SameOtherNodes(G, pre, child)
              /\ edge \notin pre.edges
              /\ G.edges = pre.edges \cup {edge}

\* a child inserted under a parent that a snippet is linked to
C10_Witness ==
    /\ call.op = "insert_metadata"
    /\ err = OK
    /\ meme(G, _format_metdata(call.parent), _format_metdata(call.metadata))
    /\ \E e \in pre.edges : e.label = HAS_METADATA /\ e.dst = _format_metdata(call.parent)

\* C11: insert_metadata fails with CategoryMismatch, creating nothing, exactly
\* when the categories of child, parent and call are not all equal; the
\* category check comes before the parent and the child are looked up.
C11_CategoryMismatchFirst ==
    call.op = "insert_metadata"
        => /\ ~CategoriesAgree(call) => (err = CategoryMismatch /\ G = pre)
           /\ err = CategoryMismatch => ~CategoriesAgree(call)

\* the categories disagree, the parent is absent and the child exists: each
\* of the three checks would fail
C11_Witness ==
    /\ call.op = "insert_metadata"
    /\ err = CategoryMismatch
    /\ ~memv(pre, _format_metdata(call.parent))
    /\ memv(pre, _format_metdata(call.metadata))

\* C12: insert_freemetadata fails with AlreadyExists, the graph unchanged,
\* when the key of the metadata is a vertex; otherwise it adds exactly that
\* vertex and no edge, so the new vertex has no incoming edge.
C12_InsertFreeMetadata ==
    call.op = "insert_freemetadata"
        => LET key == _format_metdata(call.metadata) IN
           IF memv(pre, key)
           THEN err = AlreadyExists /\ G = pre
           ELSE /\ err = OK
                /\ DOMAIN G.nodes = DOMAIN pre.nodes \cup {key}
                /\ G.nodes[key] = Metadata_model_dump(call.metadata)
                /\ SameOtherNodes(G, pre, key)
                /\ G.edges = pre.edges
                /\ predecessors(G, key) = {}

\* a free metadata inserted into a graph that has a metadata_parent edge
C12_Witness ==
    /\ call.op = "insert_freemetadata"
    /\ err = OK
    /\ is_metadata(G, _format_metdata(call.metadata))
    /\ \E e \in G.edges : e.label = METADATA_PARENT

\* the keys of the entries of a metadata list
ListKeys(l) == {_format_metdata(l[i]) : i \in 1..Len(l)}

\* the preconditions of insert_snippet: key absent, list not empty, every
\* entry an existing metadata vertex of the category of the call
InsertSnippetPreconditions(g, c) ==
    /\ ~memv(g, c.snippet.name)
    /\ Len(c.metadata_list) >= 1
    /\ \A i \in 1..Len(c.metadata_list) :
           /\ is_metadata(g, _format_metdata(c.metadata_list[i]))
           /\ c.metadata_list[i].category = c.category

\* C13: whenever its preconditions hold, insert_snippet succeeds, and then
\* the snippet vertex exists and its successors are exactly the keys of the
\* listed metadata, each by one has_metadata edge; lists that name a metadata
\* more than once included.
C13_InsertSnippetSucceeds ==
    (call.op = "insert_snippet" /\ InsertSnippetPreconditions(pre, call))
        => /\ err = OK
           /\ is_snippet(G, call.snippet.name)
           /\ OutEdges(G, call.snippet.name)
                 = {[src |-> call.snippet.name, dst |-> k, label |-> HAS_METADATA] :
                        k \in ListKeys(call.metadata_list)}

\* C14: a failing insert_freemetadata, insert_metadata, delete_snippet,
\* delete_metadata or update_snippet_content, and an insert_snippet that
\* fails because the snippet exists or the list is empty, leave the graph as
\* it was before the call.
C14_FailuresMutateNothing ==
    /\ (call.op \in {"insert_freemetadata", "insert_metadata", "delete_snippet",
                      "delete_metadata", "update_snippet_content"} /\ err # OK)
           => G = pre
    /\ (call.op = "insert_snippet"
          /\ (memv(pre, call.snippet.name) \/ Len(call.metadata_list) < 1))
           => /\ G = pre
              /\ err = IF memv(pre, call.snippet.name)
                        THEN AlreadyExists ELSE EmptyMetadataList

\* an insert_metadata under an existing parent fails because the child exists
C14_Witness ==
    /\ call.op = "insert_metadata"
    /\ err = AlreadyExists
    /\ memv(G, _format_metdata(call.parent))
    /\ _format_metdata(call.parent) # _format_metdata(call.metadata)

\* the snippet vertices of g that are predecessors of the key of m
LinkedSnippets(g, m) ==
    {k \in DOMAIN g.nodes : is_snippet(g, k) /\ meme(g, k, _format_metdata(m))}

\* the names of the snippets of a result list
ResultNames(r) == {r[i].snippet.name : i \in 1..Len(r)}

\* C15: get_snippets_union returns exactly the snippets that are
\* predecessors of at least one listed metadata vertex, each once, and
\* nothing for the empty list.
C15_Union ==
    call.op = "get_snippets_union"
        => LET l == call.metadata_list
               expected == {k \in DOMAIN pre.nodes :
                               \E i \in 1..Len(l) : k \in LinkedSnippets(pre, l[i])}
           IN /\ err = OK
              /\ ResultNames(ret) = expected
              /\ Len(ret) = Cardinality(expected)
              /\ \A i \in 1..Len(ret) :
                     ret[i].snippet = pre.nodes[ret[i].snippet.name]
              /\ l = <<>> => ret = <<>>

\* two snippets returned for two metadata, one of the snippets linked to both
C15_Witness ==
    /\ call.op = "get_snippets_union"
    /\ Len(call.metadata_list) = 2
    /\ Len(ret) = 2
    /\ \E k \in ResultNames(ret) :
           /\ k \in LinkedSnippets(pre, call.metadata_list[1])
           /\ k \in LinkedSnippets(pre, call.metadata_list[2])
    /\ \E k \in ResultNames(ret) :
           k \notin LinkedSnippets(pre, call.metadata_list[1])

\* C16: get_snippets_intersection returns exactly the snippets that are
\* predecessors of every listed metadata vertex; nothing for the empty list,
\* and nothing when a listed metadata has no linked snippet or is absent.
C16_Intersection ==
    call.op = "get_snippets_intersection"
        => LET l == call.metadata_list
               expected == IF l = <<>> THEN {}
                           ELSE {k \in DOMAIN pre.nodes :
                                    \A i \in 1..Len(l) : k \in LinkedSnippets(pre, l[i])}
           IN /\ err = OK
              /\ ResultNames(ret) = expected
              /\ Len(ret) = Cardinality(expected)
              /\ (\/ l = <<>>
                  \/ \E i \in 1..Len(l) :
                         \/ ~memv(pre, _format_metdata(l[i]))
                         \/ LinkedSnippets(pre, l[i]) = {})
                    => ret = <<>>

\* of two snippets linked to the first metadata, the one also linked to the
\* second is returned
C16_Witness ==
    /\ call.op = "get_snippets_intersection"
    /\ Len(call.metadata_list) = 2
    /\ call.metadata_list[1] # call.metadata_list[2]
    /\ Len(ret) = 1
    /\ Cardinality(LinkedSnippets(pre, call.metadata_list[1])) = 2

\* C17: _get_snippets_from_metadata returns the predecessors of the key of m
\* that are snippets, never a parent metadata, and the empty set, no error,
\* when the metadata vertex is absent.
C17_SnippetsFromMetadata ==
    call.op = "_get_snippets_from_metadata"
        => LET key == _format_metdata(call.metadata) IN
           /\ err = OK
           /\ ret = {k \in predecessors(pre, key) : is_snippet(pre, k)}
           /\ ret = {e.src : e \in {x \in pre.edges :
                                        x.dst = key /\ x.label = HAS_METADATA}}
           /\ \A k \in ret : ~is_metadata(pre, k)
           /\ ~memv(pre, key) => ret = {}

\* the metadata has a parent and a linked snippet: the snippet alone is returned
C17_Witness ==
    /\ call.op = "_get_snippets_from_metadata"
    /\ ret # {}
    /\ \E k \in predecessors(pre, _format_metdata(call.metadata)) : is_metadata(pre, k)

\* C18: for an existing metadata root, get_metadata_tree returns the graph
\* whose vertices are exactly those reachable from the root along
\* metadata_parent edges, root included, with their attributes, and whose
\* edges are exactly the edges of the store between two such vertices, with
\* their labels; no snippet and no unreachable metadata is in it.
C18_MetadataTree ==
    (call.op = "get_metadata_tree" /\ is_metadata(pre, call.metadata_key))
        => /\ err = OK
           /\ walk.pc = "done" =>
                 LET R == ParentClosure(pre, {call.metadata_key}) IN
                 /\ ret # NoRet
                 /\ \A tree \in ret :
                        /\ DOMAIN tree.nodes = R
                        /\ \A k \in R :
                               tree.nodes[k] = pre.nodes[k] /\ ~is_snippet(pre, k)
                        /\ tree.edges = {e \in pre.edges : e.src \in R /\ e.dst \in R}

\* C19: the worklist of get_metadata_tree runs empty on every graph, cycles
\* and self-loops of metadata_parent edges included, and no vertex is put on
\* the worklist more than once.
C19_WorklistTerminates ==
    /\ [](walk.twice = {})
    /\ (walk.pc = "collect") ~> (walk.pc = "done")

\* a finished collection from a root on a cycle of metadata_parent edges
\* with another metadata
C19_Witness ==
    /\ walk.pc = "done"
    /\ \E k \in walk.once :
           /\ k # call.metadata_key
           /\ call.metadata_key \in ParentClosure(G, {k})
           /\ k \in ParentClosure(G, {call.metadata_key})

\* C20: for every valid Metadata m (name of lowercase letters, digits and
\* underscore, category of the closed set), parsing the key formatted from m
\* gives m back, and two Metadata values have the same key iff they have the
\* same name and the same category.
C20_KeyRoundTrip ==
    /\ call.op \in {"parse", "parsed"} =>
           (ret.key1 = ret.key2
               <=> (call.m1.name = call.m2.name /\ call.m1.category = call.m2.category))
    /\ call.op = "parsed" => (ret.parsed.ok /\ ret.parsed.value = call.m1)

\* two values of the same name and different categories, the first, whose
\* name holds a digit and an underscore, parsed back
C20_Witness ==
    /\ call.op = "parsed"
    /\ call.m1.name = <<"0", "_">>
    /\ call.m2.name = call.m1.name
    /\ call.m2.category # call.m1.category
    /\ ret.key1 # ret.key2

\* C21: delete_snippet fails with NotFound and changes nothing when the name
\* is absent or names a vertex that is not a snippet, a metadata key for
\* one; otherwise it removes the snippet vertex and all its has_metadata
\* edges, and every other vertex, the metadata among them, stays as it was.
C21_DeleteSnippet ==
    call.op = "delete_snippet" =>
        LET n == call.snippet_name IN
        /\ (~memv(pre, n) \/ is_metadata(pre, n) \/ ~is_snippet(pre, n))
               => (err = NotFound /\ G = pre)
        /\ is_snippet(pre, n)
               => /\ err = OK
                  /\ DOMAIN G.nodes = DOMAIN pre.nodes \ {n}
                  /\ \A k \in DOMAIN G.nodes : G.nodes[k] = pre.nodes[k]
                  /\ G.edges = pre.edges \ OutEdges(pre, n)
                  /\ \A e \in G.edges : e.src # n /\ e.dst # n

\* a snippet with two has_metadata edges deleted
C21_Witness ==
    /\ call.op = "delete_snippet"
    /\ err = OK
    /\ Cardinality(OutEdges(pre, call.snippet_name)) = 2
    /\ \A e \in OutEdges(pre, call.snippet_name) :
           e.label = HAS_METADATA /\ is_metadata(G, e.dst)

\* C22: update_snippet_content on an existing snippet succeeds and leaves
\* the snippet with the new content, its name, extension, created_at and all
\* edges unchanged; on an absent snippet it fails with NotFound.
C22_UpdateSnippetContent ==
    call.op = "update_snippet_content" =>
        LET n == call.snippet_name IN
        /\ ~memv(pre, n) => (err = NotFound /\ G = pre)
        /\ is_snippet(pre, n)
               => /\ err = OK
                  /\ DOMAIN G.nodes = DOMAIN pre.nodes
                  /\ G.nodes[n] = [pre.nodes[n] EXCEPT !.content = call.content]
                  /\ \A k \in DOMAIN pre.nodes \ {n} : G.nodes[k] = pre.nodes[k]
                  /\ G.edges = pre.edges

\* C23: get_snippet fails with NotFound when the name is not a snippet
\* vertex; otherwise it returns the stored snippet and one Metadata for each
\* successor of the name, so the metadata list is exactly the snippet's
\* outgoing edges.
C23_GetSnippet ==
    call.op = "get_snippet" =>
        LET n == call.snippet_name IN
        /\ G = pre
        /\ ~is_snippet(pre, n) => err = NotFound
        /\ is_snippet(pre, n)
               => /\ err = OK
                  /\ ret.snippet = pre.nodes[n]
                  /\ {_format_metdata(m) : m \in ret.metadata_list}
                         = {e.dst : e \in OutEdges(pre, n)}
                  /\ Cardinality(ret.metadata_list) = Cardinality(OutEdges(pre, n))

\* a snippet returned with its two metadata
C23_Witness ==
    /\ call.op = "get_snippet"
    /\ err = OK
    /\ Cardinality(ret.metadata_list) = 2
    /\ ret.snippet.name = call.snippet_name

\* C24: over any sequence of domain operations a metadata vertex stays
\* present, with the same attributes, until a delete_metadata of that same
\* metadata: no other call removes it or creates it again.
C24_MetadataPersists ==
    \A k \in DOMAIN pre.nodes :
        is_metadata(pre, k)
            => \/ memv(G, k) /\ G.nodes[k] = pre.nodes[k]
               \/ /\ call.op = "delete_metadata"
                  /\ _format_metdata(call.metadata) = k

\* a parent metadata deleted, its child still there
C24_Witness ==
    /\ call.op = "delete_metadata"
    /\ err = OK
    /\ ~memv(G, _format_metdata(call.metadata))
    /\ \E e \in pre.edges :
           /\ e.src = _format_metdata(call.metadata)
           /\ e.label = METADATA_PARENT
           /\ is_metadata(G, e.dst)

\* C25: over any sequence of domain operations a snippet vertex disappears
\* only through delete_snippet of that snippet or through delete_metadata of
\* the metadata that was its only link, and while it exists nothing but its
\* content changes.
C25_SnippetPersists ==
    \A k \in DOMAIN pre.nodes :
        is_snippet(pre, k)
            => \/ /\ is_snippet(G, k)
                  /\ [G.nodes[k] EXCEPT !.content = ""]
                         = [pre.nodes[k] EXCEPT !.content = ""]
               \/ /\ ~memv(G, k)
                  /\ call.op = "delete_snippet"
                  /\ call.snippet_name = k
                  /\ err = OK
               \/ /\ ~memv(G, k)
                  /\ call.op = "delete_metadata"
                  /\ successors(pre, k) = {_format_metdata(call.metadata)}

\* a delete_metadata that takes the snippet linked to it alone and leaves
\* the snippet that has another link
C25_Witness ==
    /\ call.op = "delete_metadata"
    /\ err = OK
    /\ \E k \in DOMAIN pre.nodes : is_snippet(pre, k) /\ ~memv(G, k)
    /\ \E k \in DOMAIN G.nodes :
           /\ is_snippet(G, k)
           /\ _format_metdata(call.metadata) \in successors(pre, k)

\* the metadata vertices no metadata_parent edge points to
ParentlessMetadata(g) ==
    {k \in DOMAIN g.nodes :
        /\ is_metadata(g, k)
        /\ ~\E e \in g.edges : e.dst = k /\ e.label = METADATA_PARENT}

\* C26: get_all_roots returns exactly the metadata vertices of in-degree
\* zero over the metadata_parent relation, snippet predecessors not
\* counting, and the whole metadata forest is the union of the metadata
\* trees of those roots.
C26_RootsAndForest ==
    /\ call.op = "get_all_roots"
           => /\ err = OK
              /\ Range(ret) = ParentlessMetadata(pre)
              /\ Len(ret) = Cardinality(ParentlessMetadata(pre))
    /\ call.op = "get_whole_metadata_forest"
           => /\ err = OK
              /\ DOMAIN ret.nodes = ParentClosure(pre, ParentlessMetadata(pre))
              /\ \A k \in DOMAIN ret.nodes : ret.nodes[k] = pre.nodes[k]
              /\ ret.edges = UNION {Subtree(pre, k).edges : k \in ParentlessMetadata(pre)}

\* C27: successors and predecessors return exactly the adjacent keys in
\* their direction, the empty set for a vertex without such neighbours, and
\* successors of a key that is not a vertex returns the empty set instead of
\* failing.
C27_Adjacency ==
    /\ call.op = "successors"
           => /\ err = OK
              /\ ret = {e.dst : e \in {x \in pre.edges : x.src = call.node_key}}
    /\ (call.op = "predecessors" /\ memv(pre, call.node_key))
           => /\ err = OK
              /\ ret = {e.src : e \in {x \in pre.edges : x.dst = call.node_key}}

\* C28: indegree, outdegree and degree fail with NotFound for an absent
\* vertex, and for an existing vertex degree returns the number of edges
\* that have the key as source or destination.
C28_Degrees ==
    call.op \in {"indegree", "outdegree", "degree"}
        => /\ ~memv(pre, call.node_key) => err = NotFound
           /\ (call.op = "degree" /\ memv(pre, call.node_key))
                  => /\ err = OK
                     /\ ret = Cardinality({e \in pre.edges :
                                  e.src = call.node_key \/ e.dst = call.node_key})

\* C29: deletev of a key that is not a vertex fails with NotFound and leaves
\* the graph unchanged; it is not a silent no-op.
C29_DeleteAbsentVertex ==
    (call.op = "deletev" /\ ~memv(pre, call.node_key))
        => (err = NotFound /\ G = pre)

\* deletev of an absent key on a graph that has vertices and an edge
C29_Witness ==
    /\ call.op = "deletev"
    /\ ~memv(pre, call.node_key)
    /\ err = NotFound
    /\ G.edges # {}

\* C30: deletee fails with NotFound when the edge is absent; otherwise it
\* removes exactly that edge and leaves both endpoints, the reverse edge if
\* there is one and every other edge in place; getelabel gives a label
\* exactly when the edge exists.
C30_DeleteEdge ==
    /\ call.op = "deletee"
           => LET s == call.source_key
                  t == call.target_key
              IN /\ ~meme(pre, s, t) => (err = NotFound /\ G = pre)
                 /\ meme(pre, s, t)
                        => /\ err = OK
                           /\ G.nodes = pre.nodes
                           /\ ~meme(G, s, t)
                           /\ \A e \in pre.edges :
                                  (e.src # s \/ e.dst # t) => e \in G.edges
                           /\ G.edges \subseteq pre.edges
    /\ call.op = "getelabel"
           => /\ err = OK
              /\ ret # {} <=> meme(pre, call.source_key, call.target_key)
              /\ \A l \in ret :
                     [src |-> call.source_key, dst |-> call.target_key, label |-> l]
                         \in pre.edges

\* an edge deleted, the edge in the other direction still there
C30_Witness ==
    /\ call.op = "deletee"
    /\ err = OK
    /\ call.source_key # call.target_key
    /\ meme(G, call.target_key, call.source_key)
    /\ memv(G, call.source_key)

\* the key is a name of lowercase letters, digits and underscores, a "-",
\* and a category, the "-" being the first of the key
SplitsIntoNameAndCategory(k) ==
    \E i \in 1..Len(k) :
        /\ k[i] = "-"
        /\ \A j \in 1..(i - 1) : k[j] # "-"
        /\ i > 1
        /\ \A j \in 1..(i - 1) : k[j] \in LowerChars \cup Digits \cup {"_"}
        /\ SubSeq(k, i + 1, Len(k)) \in {concept, language}

\* C31: is_metadata(key) is true iff the key is a vertex and splits at its
\* first "-" into a valid name and a valid category; is_snippet(key) is true
\* iff the key is a vertex and its stored attributes, with name set to the
\* key, validate as a Snippet.  A key without separator, or whose part after
\* the first separator is not a category, is never metadata.
C31_Classification ==
    /\ call.op = "is_metadata"
           => LET k == call.node_key IN
              /\ err = OK
              /\ ret <=> (memv(pre, k) /\ SplitsIntoNameAndCategory(k))
              /\ (\A i \in 1..Len(k) : k[i] # "-") => ~ret
              /\ (\A i \in 1..Len(k) :
                     (k[i] = "-" /\ \A j \in 1..(i - 1) : k[j] # "-")
                         => SubSeq(k, i + 1, Len(k)) \notin Category) => ~ret
    /\ call.op = "is_snippet"
           => LET k == call.node_key IN
              /\ err = OK
              /\ ret <=> /\ memv(pre, k)
                         /\ {"content", "extension"} \subseteq DOMAIN pre.nodes[k]
                         /\ Snippet_model_validate(
                                [a \in {"name", "content", "extension"} |->
                                    IF a = "name" THEN k ELSE pre.nodes[k][a]]).ok

\* a vertex whose key has two separators found not to be metadata, its
\* attributes being those of a snippet
C31_Witness ==
    /\ call.op = "is_metadata"
    /\ memv(pre, call.node_key)
    /\ Cardinality({i \in 1..Len(call.node_key) : call.node_key[i] = "-"}) = 2
    /\ ret = FALSE
    /\ is_snippet(pre, call.node_key)

\* C32: get_metadata_tree fails with NotFound when the root key is absent
\* from the graph or is not metadata, a snippet key for one, and the tree it
\* returns is a value of its own: adding or removing vertices or edges in it
\* never changes the store.
C32_TreeIsSeparate ==
    call.op = "get_metadata_tree"
        => LET k == call.metadata_key IN
           /\ (~memv(pre, k) \/ is_snippet(pre, k) \/ ~SplitsIntoNameAndCategory(k))
                  => (err = NotFound /\ ret = NoRet /\ walk.pc = "none")
           /\ G = pre

\* a vertex removed from the tree returned, and still in the store
C32_Witness ==
    /\ call.op = "get_metadata_tree"
    /\ walk.pc = "mutated"
    /\ \E tree \in ret :
           \E k \in walk.visited : k \notin DOMAIN tree.nodes /\ memv(G, k)

\* the has_metadata edges insert_snippet has written when l_rest is what is
\* left of the list
EdgesWritten(c, l_rest) ==
    {[src |-> c.snippet.name, dst |-> _format_metdata(c.metadata_list[i]),
      label |-> HAS_METADATA] : i \in 1..(Len(c.metadata_list) - Len(l_rest))}

\* the snippets delete_metadata deletes: those of g whose only link is m
SoleLinkedSnippets(g, m) ==
    {k \in LinkedSnippets(g, m) : _only_metadata_of_snippet(g, _format_metdata(m), k)}

\* C33: insert_snippet and delete_metadata are not atomic.  Between two
\* writes of insert_snippet the snippet vertex is in the graph with exactly
\* the has_metadata edges of the part of the list handled so far; between
\* two writes of delete_metadata the metadata vertex is still in the graph
\* and the snippets handled so far whose only link it was are gone.  A stop
\* there leaves that state as it is, and a call that runs to its end leaves
\* what the whole call leaves.
C33_NotAtomic ==
    /\ (call.op = "insert_snippet" /\ walk.pc \in {"link", "stopped"})
          => /\ memv(G, call.snippet.name)
             /\ ~memv(pre, call.snippet.name)
             /\ SameOtherNodes(G, pre, call.snippet.name)
             /\ G.edges = pre.edges \cup EdgesWritten(call, walk.worklist)
    /\ (call.op = "delete_metadata" /\ walk.pc \in {"delete_snippets", "stopped"})
          => LET m_key == _format_metdata(call.metadata)
                 deleted == SoleLinkedSnippets(pre, call.metadata)
                               \ {walk.worklist[i] : i \in 1..Len(walk.worklist)}
             IN /\ is_metadata(G, m_key)
                /\ G = [nodes |-> [k \in DOMAIN pre.nodes \ deleted |-> pre.nodes[k]],
                        edges |-> {e \in pre.edges : e.src \notin deleted}]
    /\ (call.op = "insert_snippet" /\ walk.pc = "done")
          => LET r == insert_snippet(pre, call.snippet, call.metadata_list, call.category)
             IN G = r.G /\ err = r.err
    /\ (call.op = "delete_metadata" /\ walk.pc = "done")
          => \E order \in Orderings(_get_snippets_from_metadata(pre, call.metadata)) :
                 LET r == delete_metadata(pre, call.metadata, order)
                 IN G = r.G /\ err = r.err

\* a stop during insert_snippet: the snippet has one of its two edges
C33_Witness ==
    /\ call.op = "insert_snippet"
    /\ walk.pc = "stopped"
    /\ Cardinality(ListKeys(call.metadata_list)) = 2
    /\ Cardinality(successors(G, call.snippet.name)) = 1

\* a stop during delete_metadata: the snippets are gone, the metadata is not
C33_DeleteMetadataStopped ==
    /\ call.op = "delete_metadata"
    /\ walk.pc = "stopped"
    /\ walk.worklist = <<>>
    /\ SoleLinkedSnippets(pre, call.metadata) # {}
    /\ SoleLinkedSnippets(pre, call.metadata) \cap DOMAIN G.nodes = {}
    /\ memv(G, _format_metdata(call.metadata))

\* the metadata_parent edges of g
ParentEdges(g) == {e \in g.edges : e.label = METADATA_PARENT}

\* one of Orderings(S)
RECURSIVE SomeOrdering(_)
SomeOrdering(S) ==
    IF S = {} THEN <<>>
    ELSE LET x == CHOOSE y \in S : TRUE IN <<x>> \o SomeOrdering(S \ {x})

\* the set _collect_reachable_metadata returns; the order of the successors
\* does not change it
RECURSIVE CollectReachableMetadata(_, _, _)
CollectReachableMetadata(g, worklist, visited) ==
    IF worklist = <<>> THEN visited
    ELSE LET succ_list == SomeOrdering(successors(g, Head(worklist)))
             r == _collect_reachable_metadata_step(g, worklist, visited, succ_list)
         IN CollectReachableMetadata(g, r.worklist, r.visited)

\* C34: in every graph the domain operations make from the empty graph the
\* metadata_parent relation is a forest: no edge from a vertex to itself,
\* no vertex that is its own descendant, no metadata vertex with two
\* metadata parents; and every metadata vertex is in the tree of exactly one
\* of the roots get_all_roots returns.
C34_Forest ==
    /\ \A e \in ParentEdges(G) : e.src # e.dst
    /\ \A k \in DOMAIN G.nodes :
           k \notin ParentClosure(G, {e.dst : e \in {x \in ParentEdges(G) : x.src = k}})
    /\ \A e, f \in ParentEdges(G) : e.dst = f.dst => e.src = f.src
    /\ LET metadata == {k \in DOMAIN G.nodes : is_metadata(G, k)}
           tree == [r \in metadata |-> CollectReachableMetadata(G, <<r>>, {r})]
           vertices_list == SomeOrdering(DOMAIN G.nodes)
       IN \E roots \in {Range(get_all_roots(G, vertices_list))} :
              \A k \in metadata : Cardinality({r \in roots : k \in tree[r]}) = 1

\* a chain of three concepts beside a root of its own
C34_Witness ==
    /\ call.op = "insert_metadata"
    /\ err = OK
    /\ \E e, f \in ParentEdges(G) : e.dst = f.src
    /\ Cardinality(ParentlessMetadata(G)) = 2

\* C35: in every graph the domain operations make from the empty graph an
\* edge is a has_metadata edge from a snippet to a metadata vertex, or a
\* metadata_parent edge between two metadata vertices of one category; no
\* edge leaves a metadata vertex for a snippet and none enters a snippet.
C35_EdgeTyping ==
    /\ \A e \in G.edges :
           \/ /\ e.label = HAS_METADATA
              /\ is_snippet(G, e.src)
              /\ is_metadata(G, e.dst)
           \/ /\ e.label = METADATA_PARENT
              /\ is_metadata(G, e.src)
              /\ is_metadata(G, e.dst)
              /\ G.nodes[e.src].category = G.nodes[e.dst].category
              /\ _parse_metadata(e.src).value.category = _parse_metadata(e.dst).value.category
    /\ \A e \in G.edges : is_metadata(G, e.src) => ~is_snippet(G, e.dst)
    /\ \A e \in G.edges : ~is_snippet(G, e.dst)

\* both kinds of edge in one graph, beside a metadata of the other category
C35_Witness ==
    /\ \E e \in G.edges : e.label = HAS_METADATA
    /\ \E e \in G.edges : e.label = METADATA_PARENT
    /\ \E j, k \in DOMAIN G.nodes :
           /\ is_metadata(G, j)
           /\ is_metadata(G, k)
           /\ G.nodes[j].category # G.nodes[k].category

\* C36: no vertex is both metadata and snippet.  In every graph the domain
\* operations make from the empty graph is_metadata and is_snippet are never
\* both true of a key, and every vertex an operation has put in the graph
\* satisfies exactly one of them.
C36_MetadataOrSnippet ==
    /\ \A k \in DOMAIN G.nodes \cup {_format_metdata(m) : m \in HierarchyMetadatas}
                               \cup {HierarchySnippet.name} :
           ~(is_metadata(G, k) /\ is_snippet(G, k))
    /\ \A k \in DOMAIN G.nodes \ DOMAIN pre.nodes :
           is_metadata(G, k) # is_snippet(G, k)
    /\ \A k \in DOMAIN G.nodes : is_metadata(G, k) \/ is_snippet(G, k)

\* insert_snippet has just put the snippet asked for as a-concept beside the
\* metadata a-concept, and linked the two
C36_Witness ==
    /\ call.op = "insert_snippet"
    /\ err = OK
    /\ is_snippet(G, HierarchySnippet.name)
    /\ ~is_snippet(pre, HierarchySnippet.name)
    /\ \E m \in HierarchyMetadatas :
           /\ splitext_root(HierarchySnippet.name) = _format_metdata(m)
           /\ is_metadata(G, _format_metdata(m))
           /\ meme(G, HierarchySnippet.name, _format_metdata(m))

\* C37: delete_metadata(m) changes nothing outside its cascade.  After a
\* call that succeeded the vertices are those of before without m and the
\* snippets whose only link was m, each with the attributes it had, and the
\* edges are those of before that touch no deleted vertex; a snippet that
\* was not linked to m is still there with its edges.  A call that failed
\* leaves the graph as it was.
C37_DeleteMetadataFrame ==
    call.op = "delete_metadata"
        => LET m_key == _format_metdata(call.metadata)
               deleted == {m_key} \cup SoleLinkedSnippets(pre, call.metadata)
           IN IF err = OK
              THEN /\ DOMAIN G.nodes = DOMAIN pre.nodes \ deleted
                   /\ \A k \in DOMAIN G.nodes : G.nodes[k] = pre.nodes[k]
                   /\ G.edges = {e \in pre.edges :
                                    e.src \notin deleted /\ e.dst \notin deleted}
                   /\ \A k \in DOMAIN pre.nodes :
                          (is_snippet(pre, k) /\ ~meme(pre, k, m_key))
                              => /\ is_snippet(G, k)
                                 /\ OutEdges(G, k) = OutEdges(pre, k)
              ELSE G = pre

\* one snippet went with m, and a snippet that was not linked to m stayed
C37_Witness ==
    /\ call.op = "delete_metadata"
    /\ err = OK
    /\ SoleLinkedSnippets(pre, call.metadata) # {}
    /\ \E k \in DOMAIN pre.nodes :
           /\ is_snippet(pre, k)
           /\ ~meme(pre, k, _format_metdata(call.metadata))
           /\ OutEdges(pre, k) # {}
           /\ is_snippet(G, k)

QueryOps ==
    {"get_snippet", "get_all_snippets", "_get_snippets_from_metadata",
     "get_snippets_union", "get_snippets_intersection", "get_all_roots",
     "get_metadata_tree"}

\* C38: get_snippet, get_all_snippets, _get_snippets_from_metadata,
\* get_snippets_union, get_snippets_intersection, get_all_roots and
\* get_metadata_tree leave the vertices, the edges and the attributes as
\* they were, whether they succeed or fail, and get_all_snippets returns
\* exactly one entry for each vertex that is a snippet.
C38_QueriesReadOnly ==
    /\ call.op \in QueryOps => G = pre
    /\ (call.op = "get_all_snippets" /\ err = OK)
          => LET snippets == {k \in DOMAIN pre.nodes : is_snippet(pre, k)} IN
             /\ Len(ret) = Cardinality(snippets)
             /\ \A k \in snippets :
                    Cardinality({i \in 1..Len(ret) : ret[i].snippet.name = k}) = 1
    /\ call.op = "get_all_snippets"
          => (err = OK <=> \A k \in DOMAIN pre.nodes :
                              is_snippet(pre, k) => get_snippet(pre, k).err = OK)

\* get_all_snippets has returned the two snippets of a graph that has
\* metadata vertices as well
C38_Witness ==
    /\ call.op = "get_all_snippets"
    /\ err = OK
    /\ Len(ret) = 2
    /\ \E k \in DOMAIN G.nodes : is_metadata(G, k)

====
